---- MODULE Spec2Model ----
(***************************************************************************)
(* The tag-driven decode engine of stringreader (Marshal.Unmarshal), its   *)
(* registry of named unmarshalers, its sources and its error values.       *)
(*                                                                         *)
(* A Go value is a record [t, s, n, l, p, f]: its type t and, by kind, its *)
(* string s, its number n, its string list l, the address p it points to   *)
(* (0 is the nil pointer) or the values f of its fields.  The heap is the  *)
(* sequence of the structs that pointers point to; a struct held by value  *)
(* lives inside the struct that holds it and is reached by a path of field *)
(* indices.                                                                *)
(*                                                                         *)
(* Spec has the registrations and the calls of Unmarshal that find         *)
(* contextPool empty; PoolSpec has the calls on a Marshal with a complete  *)
(* registry whose Gets may find the contexts earlier calls put back;       *)
(* ConcSpec has the calls of several goroutines, step by step, with the    *)
(* context objects they take from contextPool and put back.                *)
(***************************************************************************)
EXTENDS Integers, Sequences, FiniteSets, TLC

VARIABLES
    m,      \* the Marshal: its configuration and its two maps of unmarshalers
    last,   \* the most recent call on m: its inputs, its effects and what it returned
    pool,   \* contextPool: the contexts put back and not taken again, oldest first
    run     \* the calls of unmarshal in progress in every goroutine, step by step,
            \* and the context objects in contextPool

vars == <<m, last, pool, run>>

---------------------------------------------------------------------------
(* Bounds *)

\* At most this many names are registered in the two maps together.
MaxRegistered == 2

\* Nested inline calls deeper than this exhaust the goroutine stack.
MaxDepth == 3

\* The pool keeps at most this many contexts; it is free to drop the others.
MaxPool == 1

\* This many goroutines call Unmarshal at the same time.
MaxGoroutines == 2

\* At most this many context objects are allocated at a time.
MaxContexts == 4

---------------------------------------------------------------------------
(* Types *)

\* The tag keys the Marshal of the tests is configured with.
TypeTagKey == "type"
NameTagKey == "name"

StructTag(typ, name) == [type |-> typ, name |-> name]

\* reflect.StructTag.Get: the value under key, "" when the tag has no such key.
TagGet(tag, key) ==
    IF key \in DOMAIN tag THEN tag[key] ELSE ""

\* reflect.StructField: Name, Type, Tag and whether the field is exported.
Field(name, type, typ, key) ==
    [Name |-> name, Type |-> type, Tag |-> StructTag(typ, key), Exported |-> TRUE]

StructNames ==
    {"Empty", "Profile", "Mixed", "Steps", "Typed", "Opt", "Inner", "Preset",
     "Outer", "BadInline", "BadPtr", "Multi", "Hidden", "Node", "Wrap", "Middle",
     "Shared", "SharedInner", "Implicit"}

\* The record types decoded into, after those of the tests.
StructFields(T) ==
    CASE T = "Empty" -> <<>>
      [] T = "Profile" ->
            << Field("User", "string", "", "user"),
               Field("Hostname", "string", "", "host"),
               Field("Port", "uint16", "port", "port") >>
      [] T = "Mixed" ->
            << Field("NoTag", "string", "", ""),
               Field("TypeTag", "string", "always", ""),
               Field("NameTag", "string", "", "name"),
               Field("TypeAndNameTag", "int", "port", "port") >>
      [] T = "Steps" ->
            << Field("First", "string", "always", ""),
               Field("Second", "int", "never", ""),
               Field("Third", "string", "always", "third") >>
      [] T = "Typed" ->
            << Field("Count", "int", "port", "count"),
               Field("Wide", "int", "port", "port"),
               Field("Label", "string", "port", "port"),
               Field("Num", "int", "always", "port"),
               Field("Items", "[]string", "always", "") >>
      [] T = "Opt" ->
            << Field("Value", "[]string", "nilv", ""),
               Field("N", "int", "nilv", "port"),
               Field("S", "string", "nilv", "user"),
               Field("P", "uint16", "nilv", ""),
               Field("Ref", "*Inner", "nilv", ""),
               Field("In", "Inner", "nilv", "") >>
      [] T = "Inner" ->
            << Field("Value", "string", "always", "nested") >>
      [] T = "Preset" ->
            << Field("Value", "string", "always", "preset"),
               Field("Preset", "int", "", "") >>
      [] T = "Outer" ->
            << Field("Plain", "string", "always", "plain"),
               Field("Inline", "Inner", "inline", ""),
               Field("NilPointer", "*Inner", "inline", ""),
               Field("NonNilPointer", "*Preset", "inline", "") >>
      [] T = "BadInline" ->
            << Field("Ok", "string", "always", ""),
               Field("Bad", "string", "inline", "bad"),
               Field("After", "string", "always", "") >>
      [] T = "BadPtr" ->
            << Field("Ptr", "*int", "inline", ""),
               Field("After", "string", "always", "") >>
      [] T = "Multi" ->
            << Field("Amb", "string", "both", ""),
               Field("Tags", "[]string", "list", "tags"),
               Field("Ghost", "string", "ghost", "") >>
      [] T = "Hidden" ->
            << Field("Public", "string", "always", ""),
               [Field("secret", "string", "always", "") EXCEPT !.Exported = FALSE],
               Field("After", "string", "always", "") >>
      [] T = "Node" ->
            << Field("V", "string", "always", ""),
               Field("Next", "*Node", "inline", "") >>
      [] T = "Wrap" ->
            << Field("Head", "string", "always", ""),
               Field("Mid", "Middle", "inline", ""),
               Field("After", "string", "always", "") >>
      [] T = "Middle" ->
            << Field("Ptr", "*Steps", "inline", ""),
               Field("Tail", "string", "always", "") >>
      [] T = "Shared" ->
            << Field("A", "string", "memo", "user"),
               Field("N", "string", "note", "user"),
               Field("In", "SharedInner", "inline", ""),
               Field("B", "string", "memo", "port") >>
      [] T = "Implicit" ->
            << Field("Nested", "Inner", "", ""),
               Field("Tail", "string", "always", "") >>
      [] T = "SharedInner" ->
            << Field("N", "string", "note", "port"),
               Field("C", "string", "memo", "port") >>


\* reflect.Type.Kind
Kind(t) ==
    IF t \in StructNames THEN "struct"
    ELSE IF t \in {"*" \o T : T \in StructNames} \cup {"*int"} THEN "ptr"
    ELSE IF t = "[]string" THEN "slice"
    ELSE t

\* reflect.Type.Elem of a pointer type
Elem(t) ==
    IF t = "*int" THEN "int"
    ELSE CHOOSE T \in StructNames : t = "*" \o T

---------------------------------------------------------------------------
(* Values *)

Val(t) == [t |-> t, s |-> "", n |-> 0, l |-> <<>>, p |-> 0, f |-> <<>>]

StringVal(s) == [Val("string") EXCEPT !.s = s]
IntVal(n) == [Val("int") EXCEPT !.n = n]
Uint16Val(n) == [Val("uint16") EXCEPT !.n = n]
PtrVal(t, addr) == [Val(t) EXCEPT !.p = addr]

\* The nil interface value: what a decoder returns for "no value".
NilIface == Val("nil")

\* reflect.Zero / reflect.New(t).Elem(): the zero value of a type.
RECURSIVE ZeroValue(_)
ZeroValue(t) ==
    IF Kind(t) = "struct"
    THEN [Val(t) EXCEPT !.f = [i \in 1..Len(StructFields(t)) |->
                                    ZeroValue(StructFields(t)[i].Type)]]
    ELSE Val(t)

\* The value at a path of field indices inside a struct value.
RECURSIVE GetAt(_, _)
GetAt(v, path) ==
    IF path = <<>> THEN v ELSE GetAt(v.f[Head(path)], Tail(path))

\* The struct value with the value at a path replaced.
RECURSIVE SetAt(_, _, _)
SetAt(v, path, new) ==
    IF path = <<>> THEN new
    ELSE [v EXCEPT !.f[Head(path)] = SetAt(v.f[Head(path)], Tail(path), new)]

\* A reference to a struct: the heap address and the path to it from there.
Ref(addr, path) == [addr |-> addr, path |-> path]

Load(heap, ref) == GetAt(heap[ref.addr], ref.path)
Store(heap, ref, new) == [heap EXCEPT ![ref.addr] = SetAt(heap[ref.addr], ref.path, new)]

---------------------------------------------------------------------------
(* The Marshal and its registry *)

\* A nil function value, as a map entry.
NilFn == "nil"

\* The single-value unmarshalers that get registered, after the tests':
\* "always" returns the value, "never" returns an error, "nilv" returns
\* nil and no error, "port" parses a port and defaults to 22.
SingleFns == {"FnAlways", "FnNever", "FnNil", "FnPort", "FnMemo", "FnNote"}

\* The multi-value unmarshalers that get registered: one returns the list,
\* one returns an error.
MultiFns == {"FnList", "FnNeverAll"}

\* A map with no entry (reading a nil map gives the same).
EmptyMap == [k \in {} |-> NilFn]

MapSet(map, key, value) ==
    [k \in DOMAIN map \cup {key} |-> IF k = key THEN value ELSE map[k]]

\* Marshal{...}: the struct literal a caller writes, with no unmarshalers yet.
NewMarshal(strictName, default, inline, strictTyping) ==
    [NameTag |-> NameTagKey, StrictNameTag |-> strictName,
     TypeTag |-> TypeTagKey, DefaultType |-> default, InlineType |-> inline,
     SingleUnmarshalers |-> EmptyMap, MultiUnmarshalers |-> EmptyMap,
     StrictTyping |-> strictTyping]


\* The (name, function) pairs callers register.
SingleRegistrations ==
    { <<"always", "FnAlways">>, <<"never", "FnNever">>, <<"nilv", "FnNil">>,
      <<"port", "FnPort">>, <<"both", "FnAlways">>, <<"memo", "FnMemo">>,
      <<"note", "FnNote">> }

MultiRegistrations ==
    { <<"list", "FnList">>, <<"both", "FnList">>, <<"never", "FnNeverAll">> }

Registered(mm) == Cardinality(DOMAIN mm.SingleUnmarshalers) + Cardinality(DOMAIN mm.MultiUnmarshalers)

\* Marshal.getUnmarshaler: the single or the multi unmarshaler of a name.
ErrUnknownTyp == "Marshal: unknown type"
ErrBothTyp == "Marshal: type found in both Single and Multi"

\* getUnmarshaler without the check of line 681: the single unmarshaler wins.
getUnmarshaler_PreferSingle(mm, name) ==
    LET singleOK == name \in DOMAIN mm.SingleUnmarshalers /\ mm.SingleUnmarshalers[name] # NilFn
        multiOK == name \in DOMAIN mm.MultiUnmarshalers /\ mm.MultiUnmarshalers[name] # NilFn
    IN  IF singleOK
        THEN [single |-> mm.SingleUnmarshalers[name], multi |-> NilFn, err |-> ""]
        ELSE IF multiOK
        THEN [single |-> NilFn, multi |-> mm.MultiUnmarshalers[name], err |-> ""]
        ELSE [single |-> NilFn, multi |-> NilFn, err |-> ErrUnknownTyp]

\* getUnmarshaler without the nil tests of lines 677-678: an entry counts
\* whatever it holds.
getUnmarshaler_NilCounts(mm, name) ==
    LET singleOK == name \in DOMAIN mm.SingleUnmarshalers
        multiOK == name \in DOMAIN mm.MultiUnmarshalers
        single == IF singleOK THEN mm.SingleUnmarshalers[name] ELSE NilFn
        multi == IF multiOK THEN mm.MultiUnmarshalers[name] ELSE NilFn
    IN  IF singleOK /\ multiOK
        THEN [single |-> NilFn, multi |-> NilFn, err |-> ErrBothTyp]
        ELSE IF ~(singleOK \/ multiOK)
        THEN [single |-> NilFn, multi |-> NilFn, err |-> ErrUnknownTyp]
        ELSE [single |-> single, multi |-> multi, err |-> ""]

getUnmarshaler(mm, name) ==
    LET singleIn == name \in DOMAIN mm.SingleUnmarshalers
        multiIn == name \in DOMAIN mm.MultiUnmarshalers
        single == IF singleIn THEN mm.SingleUnmarshalers[name] ELSE NilFn
        multi == IF multiIn THEN mm.MultiUnmarshalers[name] ELSE NilFn
        singleOK == singleIn /\ single # NilFn
        multiOK == multiIn /\ multi # NilFn
    IN  IF singleOK /\ multiOK
        THEN [single |-> NilFn, multi |-> NilFn, err |-> ErrBothTyp]
        ELSE IF ~(singleOK \/ multiOK)
        THEN [single |-> NilFn, multi |-> NilFn, err |-> ErrUnknownTyp]
        ELSE [single |-> single, multi |-> multi, err |-> ""]

---------------------------------------------------------------------------
(* Sources *)

\* A missing component of a SourceSplit (a nil interface).
NoComponent == [present |-> FALSE, single |-> [k \in {} |-> ""], multi |-> [k \in {} |-> <<>>]]

SourceSingleMap(map) == [NoComponent EXCEPT !.present = TRUE, !.single = map]
SourceMultiMap(map) == [NoComponent EXCEPT !.present = TRUE, !.multi = map]

SourceSplit(single, multi) == [SourceSingle |-> single, SourceMulti |-> multi]

\* SourceSingleMap.Lookup
SingleMapLookup(c, key) ==
    IF key \in DOMAIN c.single
    THEN [value |-> c.single[key], ok |-> TRUE]
    ELSE [value |-> "", ok |-> FALSE]

\* SourceMultiMap.LookupAll
MultiMapLookupAll(c, key) ==
    IF key \in DOMAIN c.multi
    THEN [value |-> c.multi[key], ok |-> TRUE]
    ELSE [value |-> <<>>, ok |-> FALSE]

\* SourceSplit.Lookup
Lookup(source, key) ==
    IF ~source.SourceSingle.present
    THEN [value |-> "", ok |-> FALSE]
    ELSE SingleMapLookup(source.SourceSingle, key)

\* SourceSmartSplit.LookupAll, for LookupAll: a single value stands in for
\* a missing multi component.
LookupAll_Smart(source, key) ==
    IF source.SourceMulti.present
    THEN MultiMapLookupAll(source.SourceMulti, key)
    ELSE IF source.SourceSingle.present
    THEN IF SingleMapLookup(source.SourceSingle, key).ok
         THEN [value |-> <<SingleMapLookup(source.SourceSingle, key).value>>, ok |-> TRUE]
         ELSE [value |-> <<>>, ok |-> TRUE]
    ELSE [value |-> <<>>, ok |-> FALSE]

\* SourceSplit.LookupAll
LookupAll(source, key) ==
    IF ~source.SourceMulti.present
    THEN [value |-> <<>>, ok |-> FALSE]
    ELSE MultiMapLookupAll(source.SourceMulti, key)

\* SourceSmartSplit.Lookup; a SourceSmartSplit has the two components of a
\* SourceSplit.
SmartLookup(source, key) ==
    IF source.SourceSingle.present
    THEN SingleMapLookup(source.SourceSingle, key)
    ELSE IF source.SourceMulti.present
    THEN IF ~MultiMapLookupAll(source.SourceMulti, key).ok
            \/ Len(MultiMapLookupAll(source.SourceMulti, key).value) = 0
         THEN [value |-> "", ok |-> FALSE]
         ELSE [value |-> MultiMapLookupAll(source.SourceMulti, key).value[1], ok |-> TRUE]
    ELSE [value |-> "", ok |-> FALSE]

\* SmartLookupAll that reports a key the single component lacks as missing.
SmartLookupAll_Absent(source, key) ==
    IF source.SourceMulti.present
    THEN MultiMapLookupAll(source.SourceMulti, key)
    ELSE IF source.SourceSingle.present
    THEN IF SingleMapLookup(source.SourceSingle, key).ok
         THEN [value |-> <<SingleMapLookup(source.SourceSingle, key).value>>, ok |-> TRUE]
         ELSE [value |-> <<>>, ok |-> FALSE]
    ELSE [value |-> <<>>, ok |-> FALSE]

\* SourceSmartSplit.LookupAll
SmartLookupAll(source, key) ==
    IF source.SourceMulti.present
    THEN MultiMapLookupAll(source.SourceMulti, key)
    ELSE IF source.SourceSingle.present
    THEN IF ~SingleMapLookup(source.SourceSingle, key).ok
         THEN [value |-> <<>>, ok |-> TRUE]
         ELSE [value |-> <<SingleMapLookup(source.SourceSingle, key).value>>, ok |-> TRUE]
    ELSE [value |-> <<>>, ok |-> FALSE]

SingleData ==
    [k \in {"user", "port", "First", "TypeTag", "plain", "nested"} |->
        CASE k = "user" -> "jane"
          [] k = "port" -> "2222"
          [] k = "First" -> "one"
          [] k = "TypeTag" -> "tt"
          [] k = "plain" -> "pv"
          [] k = "nested" -> "nv"]

MultiData ==
    [k \in {"tags", "Amb"} |-> IF k = "tags" THEN <<"a", "b">> ELSE <<"c">>]

\* The components sources are made of, a missing one included: among the
\* single-valued maps one with the keys of the multi-valued fields, among
\* the multi-valued maps one with a key whose list is empty.
SingleComponents ==
    { NoComponent, SourceSingleMap([k \in {} |-> ""]), SourceSingleMap(SingleData),
      SourceSingleMap([k \in {"tags", "Amb"} |-> IF k = "tags" THEN "t" ELSE "c"]) }
MultiComponents ==
    { NoComponent, SourceMultiMap([k \in {} |-> <<>>]), SourceMultiMap(MultiData),
      SourceMultiMap([k \in {"tags", "user", "hollow"} |->
                        CASE k = "tags" -> <<"a", "b">>
                          [] k = "user" -> <<"u1", "u2">>
                          [] k = "hollow" -> <<>>]) }

\* The sources decoded from: an empty single-valued one, and one with both
\* components.
Sources ==
    { SourceSplit(SourceSingleMap([k \in {} |-> ""]), NoComponent),
      SourceSplit(SourceSingleMap(SingleData), SourceMultiMap(MultiData)) }

---------------------------------------------------------------------------
(* The data store *)

\* A Go map is a reference.  A map value is nil (made = FALSE) or refers to
\* a map whose entries are at; a copy of a map value that is not nil refers
\* to the same map, so the entries of both are the same at any time, while
\* a copy of a nil map value stays nil whatever is made of the original.
NilMap == [made |-> FALSE, at |-> <<>>]
MakeMap == [made |-> TRUE, at |-> <<>>]

\* map[key], nil for a missing key and for a nil map
MapGet(map, key) == IF key \in DOMAIN map.at THEN map.at[key] ELSE NilIface

\* Data{}: the zero value of the data store.
ZeroData == [Globals |-> NilMap, Locals |-> NilMap]

\* A Data whose maps have been made, with no entries.
MadeData == [Globals |-> MakeMap, Locals |-> MakeMap]

\* The stores callers pass to Unmarshal.
Datas == {ZeroData, MadeData}

\* context.GetGlobal
GetGlobal(ctx, key) == MapGet(ctx.data.Globals, key)

\* Get that looks under the datum of the field, not under its name.
Get_ByDatum(ctx, key) ==
    IF ctx.datum \in DOMAIN ctx.data.Locals.at
    THEN MapGet(ctx.data.Locals.at[ctx.datum], key)
    ELSE NilIface

\* context.Get: the inner map of a missing field is nil.
Get(ctx, key) ==
    IF ctx.field \in DOMAIN ctx.data.Locals.at
    THEN MapGet(ctx.data.Locals.at[ctx.field], key)
    ELSE NilIface

\* A call of SetGlobal(key, value), or of SetLocal(field, key, value), on
\* the Data of the caller of Unmarshal.
GlobalWrite(key, value) == [scope |-> "global", field |-> "", key |-> key, value |-> value]
LocalWrite(field, key, value) == [scope |-> "local", field |-> field, key |-> key, value |-> value]

\* Data.SetGlobal and Data.SetLocal as seen through a copy of the Data taken
\* before: a map that was nil then is made in the original only.
Written(data, w) ==
    IF w.scope = "global"
    THEN IF data.Globals.made
         THEN [data EXCEPT !.Globals.at = MapSet(@, w.key, w.value)]
         ELSE data
    ELSE IF data.Locals.made
         THEN [data EXCEPT !.Locals.at =
                    MapSet(@, w.field,
                           [made |-> TRUE,
                            at |-> MapSet(IF w.field \in DOMAIN @ THEN @[w.field].at ELSE <<>>,
                                          w.key, w.value)])]
         ELSE data

RECURSIVE WrittenAll(_, _)
WrittenAll(data, ws) ==
    IF ws = <<>> THEN data ELSE WrittenAll(Written(data, Head(ws)), Tail(ws))

\* The Data passed to Unmarshal as the contexts of the call see it after
\* the unmarshalers called so far (those of log) have written to it.
RECURSIVE Visible(_, _)
Visible(data, log) ==
    IF log = <<>> THEN data
    ELSE Visible(WrittenAll(data, Head(log).w), Tail(log))

---------------------------------------------------------------------------
(* Unmarshalers *)

\* What an unmarshaler returns, and what it wrote to the data store.
Returns(val, err) == [val |-> val, err |-> err, w |-> <<>>]

\* strconv.ParseUint(value, 10, 16) on the strings of the sources: "2222" is
\* their only numeral, the others are no numerals.
ParseUint16(value) ==
    IF value = "2222"
    THEN [n |-> 2222, err |-> ""]
    ELSE [n |-> 0, err |-> "strconv.ParseUint: invalid syntax"]

\* What a single-value unmarshaler returns for (value, ok, ctx).
CallSingle(fn, value, ok, ctx) ==
    CASE fn = "FnAlways" -> Returns(StringVal(value), "")
      [] fn = "FnNever" -> Returns(NilIface, "never unmarshaler")
      [] fn = "FnNil" -> Returns(NilIface, "")
      [] fn = "FnPort" ->
            IF ~ok THEN Returns(IntVal(22), "")
            ELSE Returns(Uint16Val(ParseUint16(value).n), ParseUint16(value).err)
      [] fn = "FnMemo" ->
            IF GetGlobal(ctx, "k") # NilIface
            THEN Returns(GetGlobal(ctx, "k"), "")
            ELSE [Returns(StringVal(value), "") EXCEPT
                        !.w = <<GlobalWrite("k", StringVal(value))>>]
      [] fn = "FnNote" ->
            IF Get(ctx, "k") # NilIface
            THEN Returns(Get(ctx, "k"), "")
            ELSE [Returns(StringVal(value), "") EXCEPT
                        !.w = <<LocalWrite(ctx.field, "k", StringVal(value))>>]

\* What a multi-value unmarshaler returns for (value, ok, ctx).
CallMulti(fn, value, ok, ctx) ==
    CASE fn = "FnList" -> Returns([Val("[]string") EXCEPT !.l = value], "")
      [] fn = "FnNeverAll" -> Returns(NilIface, "never unmarshaler")

---------------------------------------------------------------------------
(* Contexts and errors *)

KindUndef == "KindUndef"
KindSingleUnmarshaler == "KindSingleUnmarshaler"
KindMultiUnmarshaler == "KindMultiUnmarshaler"

NoTag == StructTag("", "")

\* new(context)
NewContext ==
    [field |-> "", tag |-> NoTag, datum |-> "", typ |-> "", kind |-> KindUndef,
     data |-> ZeroData]

\* context.Reset
Reset(ctx) ==
    [ctx EXCEPT !.field = "", !.datum = "", !.typ = "", !.kind = KindUndef,
                !.data = ZeroData]

\* contextPool.Get finds a context in the pool (hit) or not; a hit takes the
\* context put back last, a miss makes a new one.
PoolGet(p, hit) == IF hit /\ p # <<>> THEN p[Len(p)] ELSE NewContext

\* contextPool.Put; a full pool drops its oldest context.
PoolPut(p, ctx) == IF Len(p) < MaxPool THEN Append(p, ctx) ELSE Append(Tail(p), ctx)

\* A MarshalError value, and nil for none.  Assignment, ReturnedType and
\* DestType are those of ErrWrongDestType.
MarshalError(kind) ==
    [kind |-> kind, field |-> "", tag |-> NoTag, datum |-> "", typ |-> "",
     knd |-> KindUndef, cause |-> "", Assignment |-> FALSE,
     ReturnedType |-> "", DestType |-> ""]

NoError == MarshalError("nil")
ErrDestIsNil == MarshalError("ErrDestIsNil")
ErrNotPointerToStruct == MarshalError("ErrNotPointerToStruct")

\* ErrInlineNotStruct without the name of the field.
ErrInlineNotStruct_NoField(ctx) ==
    [MarshalError("ErrInlineNotStruct") EXCEPT !.tag = ctx.tag, !.typ = ctx.typ]

ErrInlineNotStruct(ctx) ==
    [MarshalError("ErrInlineNotStruct") EXCEPT
        !.field = ctx.field, !.tag = ctx.tag, !.typ = ctx.typ]

ErrUnknownType(ctx, cause) ==
    [MarshalError("ErrUnknownType") EXCEPT
        !.field = ctx.field, !.tag = ctx.tag, !.datum = ctx.datum,
        !.typ = ctx.typ, !.cause = cause]

\* ErrFailedToProcessField without kind and cause.
ErrFailedToProcessField_Bare(ctx, cause) ==
    [MarshalError("ErrFailedToProcessField") EXCEPT
        !.field = ctx.field, !.tag = ctx.tag, !.datum = ctx.datum, !.typ = ctx.typ]

ErrFailedToProcessField(ctx, cause) ==
    [MarshalError("ErrFailedToProcessField") EXCEPT
        !.field = ctx.field, !.tag = ctx.tag, !.datum = ctx.datum,
        !.typ = ctx.typ, !.knd = ctx.kind, !.cause = cause]

ErrWrongDestType(ctx, assignment, returned, dest, cause) ==
    [MarshalError("ErrWrongDestType") EXCEPT
        !.field = ctx.field, !.tag = ctx.tag, !.datum = ctx.datum,
        !.typ = ctx.typ, !.knd = ctx.kind, !.cause = cause,
        !.Assignment = assignment, !.ReturnedType = returned, !.DestType = dest]

\* The call did not return: a run-time panic that nothing recovers.
Panic(msg) == [MarshalError("panic") EXCEPT !.cause = msg]

\* The call did not return: the goroutine's stack is exhausted.
StackOverflow == [MarshalError("fatal") EXCEPT !.cause = "stack overflow"]

Returned(err) == err.kind \notin {"panic", "fatal"}

\* The State methods of the error values.
ErrField(err) == err.field
ErrTag(err) == err.tag
ErrDatum(err) ==
    IF err.kind = "ErrInlineNotStruct" THEN "" ELSE err.datum
ErrTyp(err) == err.typ
ErrKind(err) ==
    IF err.kind \in {"ErrFailedToProcessField", "ErrWrongDestType"}
    THEN err.knd ELSE KindUndef
Unwrap(err) == err.cause

---------------------------------------------------------------------------
(* Reconciling a returned value with the field's type *)

Numeric == {"int", "uint16"}

\* reflect.Type.AssignableTo, on the types of the model (none is an interface).
AssignableTo(from, to) == from = to

\* ConvertibleTo that also takes strings to numbers.
ConvertibleTo_Lenient(from, to) ==
    \/ from = to
    \/ from \in Numeric \cup {"string"} /\ to \in Numeric
    \/ from \in Numeric /\ to = "string"

\* reflect.Type.ConvertibleTo: identical types, numbers to numbers, and
\* integers to strings.
ConvertibleTo(from, to) ==
    \/ from = to
    \/ from \in Numeric /\ to \in Numeric
    \/ from \in Numeric /\ to = "string"

\* reflect.Value.CanConvert (no slice is converted to an array here)
CanConvert(v, t) == ConvertibleTo(v.t, t)

\* string(rune(n))
RuneString(n) ==
    IF n < 0 \/ n > 1114111 \/ (n >= 55296 /\ n <= 57343)
    THEN "\\uFFFD"
    ELSE "\\u" \o ToString(n)

\* reflect.Value.Convert
Convert(v, t) ==
    IF v.t = t THEN v
    ELSE IF t = "uint16" THEN Uint16Val(v.n % 65536)
    ELSE IF t = "int" THEN IntVal(v.n)
    ELSE StringVal(RuneString(v.n))

\* reflectConvert: the converted value, or the zero reflect.Value and the
\* recovered panic as an error.
InvalidValue == Val("invalid")

reflectConvert(v, t, panics) ==
    IF panics
    THEN [v |-> InvalidValue, err |-> "reflect: conversion panicked"]
    ELSE [v |-> Convert(v, t), err |-> ""]

\* reflect.ValueOf
ValueOf(pValue) == IF pValue = NilIface THEN InvalidValue ELSE pValue

IsValid(rValue) == rValue # InvalidValue

TypePanic == "reflect: call of reflect.Value.Type on zero Value"

\* What the reconciliation gives: the value to assign ("set"), the
\* ErrWrongDestType to return ("error"), or a panic.
Reconciled(res, v) ==
    [res |-> res, val |-> v, Assignment |-> FALSE, ReturnedType |-> "", cause |-> ""]

\* NilSubstitute were the branch of lines 611-617 missing: Set of the zero Value panics.
NilSubstitute_Missing(fType) ==
    [Reconciled("panic", InvalidValue) EXCEPT
        !.cause = "reflect: call of reflect.Value.Set on zero Value"]

\* Lines 611-617: the zero value of the field's type stands for a nil.
NilSubstitute(fType) == Reconciled("set", ZeroValue(fType))

\* Lines 593-610: what reflectConvert gave.  After a failure rValue is the
\* zero Value it returned, and rValue.Type() of line 605 panics.
Converted(converted) ==
    IF converted.err # ""
    THEN IF IsValid(converted.v)
         THEN [Reconciled("error", converted.v) EXCEPT
                    !.ReturnedType = converted.v.t, !.cause = converted.err]
         ELSE [Reconciled("panic", converted.v) EXCEPT !.cause = TypePanic]
    ELSE Reconciled("set", converted.v)

\* Lines 572-618: without strict typing, the value is converted to the
\* field's type.
ReconcileLoose(pValue, fType, panics) ==
    IF IsValid(ValueOf(pValue))
    THEN IF ~CanConvert(ValueOf(pValue), fType)
         THEN [Reconciled("error", ValueOf(pValue)) EXCEPT !.ReturnedType = pValue.t]
         ELSE Converted(reflectConvert(ValueOf(pValue), fType, panics))
    ELSE NilSubstitute(fType)

\* Lines 620-636: with strict typing, the value must be assignable as it
\* is.  rValue.Type() of line 622 panics on the zero Value of a nil.
ReconcileStrict(pValue, fType) ==
    LET rValue == ValueOf(pValue)
    IN  IF ~IsValid(rValue)
        THEN [Reconciled("panic", rValue) EXCEPT !.cause = TypePanic]
        ELSE IF ~AssignableTo(rValue.t, fType)
        THEN [Reconciled("error", rValue) EXCEPT
                    !.Assignment = TRUE, !.ReturnedType = rValue.t]
        ELSE Reconciled("set", rValue)

\* Reconcile that converts whatever StrictTyping says.
Reconcile_Converts(strictTyping, pValue, fType, panics) ==
    ReconcileLoose(pValue, fType, panics)

\* Lines 569-636: the value to assign to the field, or why there is none.
Reconcile(strictTyping, pValue, fType, panics) ==
    IF ~strictTyping
    THEN ReconcileLoose(pValue, fType, panics)
    ELSE ReconcileStrict(pValue, fType)

---------------------------------------------------------------------------
(* Marshal.unmarshal *)

\* An interface value handed to Unmarshal: the nil interface, a pointer of
\* type t to the struct at (addr, path), or a value that is no pointer.
NilValue == [k |-> "nil", t |-> "", addr |-> 0, path |-> <<>>]
Pointer(t, addr, path) == [k |-> "ptr", t |-> t, addr |-> addr, path |-> path]

\* What the call did, in order: "get" when a call of unmarshal takes its
\* context (ctx) from the pool (ok for a hit), "reset" and "put" when it
\* resets it and puts it back, "field" when the loop reaches a field,
\* "lookup" and "lookupAll" for the queries of the source (key, what was
\* found, ok), "call" for the invocation of an unmarshaler (fn) with the
\* context ctx it is given and what it returned (val, err), "convert" for a
\* conversion by reflectConvert (ok unless it panicked), "set" for a write of
\* a field.  (addr, path) is the place of the field.
Event(ev, fref) ==
    [ev |-> ev, addr |-> fref.addr, path |-> fref.path, key |-> "", fn |-> "",
     ok |-> FALSE, s |-> "", l |-> <<>>, ctx |-> NewContext, val |-> NilIface,
     err |-> "", w |-> <<>>]

\* What one iteration of the loop leaves: err is NoError when the loop goes on.
Step(heap, log, ctx, err) == [heap |-> heap, log |-> log, ctx |-> ctx, err |-> err]

\* The events of the pool.
OfPool(e) == e.ev \in {"get", "reset", "put"}

\* The pool p after the events of log.
RECURSIVE Pooled(_, _)
Pooled(p, log) ==
    IF log = <<>> THEN p
    ELSE Pooled(CASE Head(log).ev = "get" ->
                        IF Head(log).ok /\ p # <<>> THEN SubSeq(p, 1, Len(p) - 1) ELSE p
                  [] Head(log).ev = "put" -> PoolPut(p, Head(log).ctx)
                  [] OTHER -> p,
                Tail(log))

\* What a call of unmarshal leaves.
Result(heap, log, err) == [heap |-> heap, log |-> log, err |-> err]

\* ResolveTyp without the skip of line 462: an untagged field gets a type.
ResolveTyp_NoSkip(mm, fld) ==
    LET typ == TagGet(fld.Tag, mm.TypeTag)
    IN  IF typ # "" THEN typ
        ELSE IF mm.DefaultType = "" THEN "always" ELSE mm.DefaultType

\* Lines 458-466: the type tag of the field, or the default type; "" skips the field.
\* ResolveTyp without the default of line 465.
ResolveTyp_TagOnly(mm, fld) == TagGet(fld.Tag, mm.TypeTag)

ResolveTyp(mm, fld) ==
    LET typ == TagGet(fld.Tag, mm.TypeTag)
    IN  IF typ = "" THEN mm.DefaultType ELSE typ

\* Line 470: whether the field is inlined.
IsInline(mm, typ) == mm.InlineType # "" /\ typ = mm.InlineType

\* SkipsUnnamed without the skip of line 518.
SkipsUnnamed_Never(mm, fld) == FALSE

\* Lines 516-520: whether the field is skipped for want of a name tag.
SkipsUnnamed(mm, fld) ==
    TagGet(fld.Tag, mm.NameTag) = "" /\ mm.StrictNameTag

\* ResolveDatum without the fallback of line 521.
ResolveDatum_NoFallback(mm, fld) == TagGet(fld.Tag, mm.NameTag)

\* Lines 516-522: the key the source is asked for.
ResolveDatum(mm, fld) ==
    LET datum == TagGet(fld.Tag, mm.NameTag)
    IN  IF datum = "" THEN fld.Name ELSE datum

\* Lines 545-548: the single unmarshaler is called with what Lookup gave (r),
\* and p is what it returned.
\* SingleCalled that calls the unmarshaler once more when it returned an error.
SingleCalled_Retry(fn, ctx, fref, log, r, p) ==
    [ctx |-> ctx, pValue |-> p.val, pErr |-> p.err,
     log |-> log \o
        << [Event("lookup", fref) EXCEPT !.key = ctx.datum, !.s = r.value, !.ok = r.ok] >> \o
        [i \in 1..(IF p.err = "" THEN 1 ELSE 2) |->
           [Event("call", fref) EXCEPT !.fn = fn, !.s = r.value, !.ok = r.ok,
                                       !.ctx = ctx, !.val = p.val, !.err = p.err,
                                       !.w = p.w]]]

\* Lines 545-548: the single unmarshaler is called with what Lookup gave.
SingleCalled(fn, ctx, fref, log, r, p) ==
    [ctx |-> ctx, pValue |-> p.val, pErr |-> p.err,
     log |-> log \o
        << [Event("lookup", fref) EXCEPT !.key = ctx.datum, !.s = r.value, !.ok = r.ok],
           [Event("call", fref) EXCEPT !.fn = fn, !.s = r.value, !.ok = r.ok,
                                       !.ctx = ctx, !.val = p.val, !.err = p.err,
                                       !.w = p.w] >>]

\* SingleLooked that calls the unmarshaler as if nothing had been found.
SingleLooked_Blank(fn, ctx, fref, log, r) ==
    SingleCalled(fn, ctx, fref, log, [value |-> "", ok |-> FALSE],
                 CallSingle(fn, "", FALSE, ctx))

SingleLooked(fn, ctx, fref, log, r) ==
    SingleCalled(fn, ctx, fref, log, r, CallSingle(fn, r.value, r.ok, ctx))

\* Lines 550-553: the multi unmarshaler is called with what LookupAll gave.
MultiCalled(fn, ctx, fref, log, r, p) ==
    [ctx |-> ctx, pValue |-> p.val, pErr |-> p.err,
     log |-> log \o
        << [Event("lookupAll", fref) EXCEPT !.key = ctx.datum, !.l = r.value, !.ok = r.ok],
           [Event("call", fref) EXCEPT !.fn = fn, !.l = r.value, !.ok = r.ok,
                                       !.ctx = ctx, !.val = p.val, !.err = p.err,
                                       !.w = p.w] >>]

MultiLooked(fn, ctx, fref, log, r) ==
    MultiCalled(fn, ctx, fref, log, r, CallMulti(fn, r.value, r.ok, ctx))

\* Lines 543-554: the query of the source and the call of the unmarshaler found.
Dispatch(um, source, data, ctx, fref, log) ==
    IF um.single # NilFn
    THEN SingleLooked(um.single,
                      [ctx EXCEPT !.kind = KindSingleUnmarshaler, !.data = Visible(data, log)],
                      fref, log,
                      Lookup(source, ctx.datum))
    ELSE IF um.multi # NilFn
    THEN MultiLooked(um.multi,
                     [ctx EXCEPT !.kind = KindMultiUnmarshaler, !.data = Visible(data, log)],
                     fref, log,
                     LookupAll(source, ctx.datum))
    ELSE [ctx |-> ctx, pValue |-> NilIface, pErr |-> "", log |-> log]

\* Failed with the error of the unmarshaler ignored.
Failed_Ignored(pErr) == FALSE

\* Line 555: whether the unmarshaler returned an error.
Failed(pErr) == pErr # ""

\* Whether line 593 is reached: the conversion is attempted.
ConvertAttempted(strictTyping, pValue, fType) ==
    /\ ~strictTyping
    /\ IsValid(ValueOf(pValue))
    /\ CanConvert(pValue, fType)

SetPanic == "reflect: reflect.Value.Set using value obtained using unexported field"
InterfacePanic == "reflect.Value.Interface: cannot return value obtained from unexported field or method"
FieldPanic == "reflect: call of reflect.Value.Field on zero Value"

\* Line 638, fValue.Set(rValue): a field that is not exported cannot be set.
Assign(fld, fref, val, ctx, heap, log) ==
    IF ~fld.Exported
    THEN Step(heap, log, ctx, Panic(SetPanic))
    ELSE Step(Store(heap, fref, val), Append(log, [Event("set", fref) EXCEPT !.val = val]),
              ctx, NoError)

\* Lines 569-638: the value is reconciled (r) and assigned.
withReconciled(fld, fref, ctx, heap, log, r) ==
    IF r.res = "error"
    THEN Step(heap, log, ctx,
              ErrWrongDestType(ctx, r.Assignment, r.ReturnedType, fld.Type, r.cause))
    ELSE IF r.res = "panic"
    THEN Step(heap, log, ctx, Panic(r.cause))
    ELSE Assign(fld, fref, r.val, ctx, heap, log)

\* Lines 555-638: the unmarshaler has returned (d).  env.panics says whether
\* rValue.Convert panics on a conversion between different types: the case
\* the recover of reflectConvert is written for.  (reflect documents that
\* Convert does not panic when CanConvert is true.)
withValue(mm, fld, fref, env, st, d) ==
    IF Failed(d.pErr)
    THEN Step(st.heap, d.log, d.ctx, ErrFailedToProcessField(d.ctx, d.pErr))
    ELSE withReconciled(fld, fref, d.ctx, st.heap,
            IF ConvertAttempted(mm.StrictTyping, d.pValue, fld.Type)
            THEN Append(d.log, [Event("convert", fref) EXCEPT
                                    !.val = d.pValue,
                                    !.ok = ~(env.panics /\ d.pValue.t # fld.Type)])
            ELSE d.log,
            Reconcile(mm.StrictTyping, d.pValue, fld.Type,
                      env.panics /\ d.pValue.t # fld.Type))

\* Lines 524-554: the unmarshaler of the field's type (um) is looked for and called.
withUnmarshaler(mm, fld, fref, env, ctx, st, um) ==
    IF um.err # ""
    THEN Step(st.heap, st.log, ctx, ErrUnknownType(ctx, um.err))
    ELSE withValue(mm, fld, fref, env, st, Dispatch(um, env.source, env.data, ctx, fref, st.log))

\* Lines 514-638: a field that is not inlined.
leafField(mm, fld, fref, env, ctx, st) ==
    IF SkipsUnnamed(mm, fld)
    THEN Step(st.heap, st.log, [ctx EXCEPT !.datum = ""], NoError)
    ELSE withUnmarshaler(mm, fld, fref, env, [ctx EXCEPT !.datum = ResolveDatum(mm, fld)],
                         st, getUnmarshaler(mm, ctx.typ))

RECURSIVE unmarshal(_, _, _, _, _)
RECURSIVE fields(_, _, _, _, _, _, _, _)

\* inlined that names the inlined field in the error of the recursive call.
inlined_Wrapped(ctx, r) ==
    Step(r.heap, r.log, ctx,
         IF r.err = NoError THEN NoError ELSE [r.err EXCEPT !.field = ctx.field])

\* Lines 507-511: what the recursive call returned (r) is the field's error, if any.
inlined(ctx, r) == Step(r.heap, r.log, ctx, r.err)

\* IsNil that takes every pointer for nil.
IsNil_Always(v) == TRUE

\* IsNil that takes no pointer for nil.
IsNil_Never(v) == FALSE

\* Line 493, fValue.IsNil()
IsNil(v) == v.p = 0

\* Lines 470-512: a field that is inlined.
inlineField(mm, fld, fref, env, depth, ctx, st) ==
    LET fType == fld.Type
        cur == Load(st.heap, fref)
        addr == Len(st.heap) + 1
        fresh == PtrVal(fType, addr)
        heap1 == Store(Append(st.heap, ZeroValue(Elem(fType))), fref, fresh)
        log1 == Append(st.log, [Event("set", fref) EXCEPT !.val = fresh])
        into(fieldPointer, heap, log) ==
            inlined(ctx, unmarshal(mm, fieldPointer, env, depth + 1,
                                   [heap |-> heap, log |-> log]))
    IN  IF Kind(fType) = "struct"
        THEN IF ~fld.Exported
             THEN Step(st.heap, st.log, ctx, Panic(InterfacePanic))
             ELSE into(Pointer("*" \o fType, fref.addr, fref.path), st.heap, st.log)
        ELSE IF Kind(fType) = "ptr"
        THEN IF Kind(Elem(fType)) # "struct"
             THEN Step(st.heap, st.log, ctx, ErrInlineNotStruct(ctx))
             ELSE IF IsNil(cur)
             THEN IF ~fld.Exported
                  THEN Step(st.heap, st.log, ctx, Panic(SetPanic))
                  ELSE into(Pointer(fType, addr, <<>>), heap1, log1)
             ELSE IF ~fld.Exported
                  THEN Step(st.heap, st.log, ctx, Panic(InterfacePanic))
                  ELSE into(Pointer(fType, cur.p, <<>>), st.heap, st.log)
        ELSE Step(st.heap, st.log, ctx, ErrInlineNotStruct(ctx))

\* positioned that sets the tag of a context only when it has none.
positioned_TagOnce(mm, fld, ctx) ==
    [ctx EXCEPT !.field = fld.Name, !.tag = IF @ = NoTag THEN fld.Tag ELSE @,
                !.typ = ResolveTyp(mm, fld)]

\* positioned that leaves the name of the field before in the context.
positioned_FieldOnce(mm, fld, ctx) ==
    [ctx EXCEPT !.field = IF @ = "" THEN fld.Name ELSE @, !.tag = fld.Tag,
                !.typ = ResolveTyp(mm, fld)]

\* Lines 455-467: the context takes the name, the tag and the type of the field.
positioned(mm, fld, ctx) ==
    [ctx EXCEPT !.field = fld.Name, !.tag = fld.Tag, !.typ = ResolveTyp(mm, fld)]

\* Lines 458-638: one iteration of the loop, for the field fld at fref.
iteration(mm, fld, fref, env, depth, ctx, st) ==
    IF ctx.typ = ""
    THEN Step(st.heap, st.log, ctx, NoError)
    ELSE IF IsInline(mm, ctx.typ)
    THEN inlineField(mm, fld, fref, env, depth, ctx, st)
    ELSE leafField(mm, fld, fref, env, ctx, st)

\* Line 450: after an iteration (step) the loop returns its error or goes on.
proceed(mm, T, ref, env, depth, i, step) ==
    IF step.err # NoError
    THEN step
    ELSE fields(mm, T, ref, env, depth, step.ctx, i + 1,
                [heap |-> step.heap, log |-> step.log])

\* Lines 450-639: the loop over the fields of the struct of type T at ref, from field i on.
fields(mm, T, ref, env, depth, ctx, i, st) ==
    IF i > Len(StructFields(T))
    THEN Step(st.heap, st.log, ctx, NoError)
    ELSE IF ref.addr = 0
    THEN Step(st.heap, st.log, ctx, Panic(FieldPanic))
    ELSE LET fld == StructFields(T)[i]
             fref == Ref(ref.addr, Append(ref.path, i))
         IN  proceed(mm, T, ref, env, depth, i,
                iteration(mm, fld, fref, env, depth,
                    positioned(mm, fld, ctx),
                    [heap |-> st.heap, log |-> Append(st.log, Event("field", fref))]))

\* Lines 443 and 446, deferred: when the loop has ended (r), by a return or
\* by a panic, the context is reset and then put back.  An exhausted stack
\* ends the program and runs nothing.
released(ref, r) ==
    IF r.err = StackOverflow
    THEN Result(r.heap, r.log, r.err)
    ELSE Result(r.heap,
                r.log \o << [Event("reset", ref) EXCEPT !.ctx = Reset(r.ctx)],
                            [Event("put", ref) EXCEPT !.ctx = Reset(r.ctx)] >>,
                r.err)

\* Lines 442-449: the context taken from the pool p gets the data of the
\* call, and the loop runs with it.
acquired(mm, value, env, depth, st, p) ==
    released(Ref(value.addr, value.path),
        fields(mm, Elem(value.t), Ref(value.addr, value.path), env, depth,
               [PoolGet(p, depth \in env.hits) EXCEPT !.data = Visible(env.data, st.log)], 1,
               [heap |-> st.heap,
                log |-> Append(st.log,
                            [Event("get", Ref(value.addr, value.path)) EXCEPT
                                !.ok = depth \in env.hits /\ p # <<>>,
                                !.ctx = PoolGet(p, depth \in env.hits)])]))

\* Lines 422-446: the checks of the target, and the context of the call.
unmarshal(mm, value, env, depth, st) ==
    IF value.k = "nil"
    THEN Result(st.heap, st.log, ErrDestIsNil)
    ELSE IF Kind(value.t) # "ptr"
    THEN Result(st.heap, st.log, ErrNotPointerToStruct)
    ELSE IF Kind(Elem(value.t)) # "struct"
    THEN Result(st.heap, st.log, ErrNotPointerToStruct)
    ELSE IF depth > MaxDepth
    THEN Result(st.heap, st.log, StackOverflow)
    ELSE acquired(mm, value, env, depth, st, Pooled(env.pool, st.log))

\* Marshal.Unmarshal, with the pool p it finds and the depths hits of the
\* calls of unmarshal whose Get finds a context in the pool.
Unmarshal(mm, value, source, data, panics, heap, p, hits) ==
    unmarshal(mm, value,
              [source |-> source, data |-> data, panics |-> panics, pool |-> p, hits |-> hits],
              0, [heap |-> heap, log |-> <<>>])

---------------------------------------------------------------------------
(* Targets *)

\* A struct of type T whose strings are "old" and whose numbers are 7.
RECURSIVE Seeded(_)
Seeded(t) ==
    CASE Kind(t) = "struct" ->
            [Val(t) EXCEPT !.f = [i \in 1..Len(StructFields(t)) |-> Seeded(StructFields(t)[i].Type)]]
      [] Kind(t) = "string" -> [Val(t) EXCEPT !.s = "old"]
      [] Kind(t) \in Numeric -> [Val(t) EXCEPT !.n = 7]
      [] Kind(t) = "slice" -> [Val(t) EXCEPT !.l = <<"old">>]
      [] OTHER -> Val(t)


\* The values handed to Unmarshal with the heap they point into: nil, a
\* struct that is no pointer, a pointer to an integer, a nil pointer to a
\* struct, pointers to structs with and without values, and a struct whose
\* inlined pointer already points to a struct.
Targets ==
    { [value |-> NilValue, heap |-> <<>>],
      [value |-> [k |-> "val", t |-> "Profile", addr |-> 0, path |-> <<>>], heap |-> <<>>],
      [value |-> Pointer("*int", 1, <<>>), heap |-> <<IntVal(7)>>],
      [value |-> Pointer("*Profile", 0, <<>>), heap |-> <<>>],
      [value |-> Pointer("*Empty", 0, <<>>), heap |-> <<>>],
      [value |-> Pointer("*Profile", 1, <<>>), heap |-> <<ZeroValue("Profile")>>],
      [value |-> Pointer("*Outer", 1, <<>>),
       heap |-> << [Seeded("Outer") EXCEPT !.f[4] = PtrVal("*Preset", 2)], Seeded("Preset") >>] }
    \cup { [value |-> Pointer("*" \o T, 1, <<>>), heap |-> <<Seeded(T)>>] : T \in StructNames \ {"Inner", "Preset", "Middle", "SharedInner"} }

---------------------------------------------------------------------------
(* The state machine *)

Goroutines == 1..MaxGoroutines

\* No goroutine is in a call, and contextPool holds no context object.
Idle == [free |-> {}, stacks |-> [g \in Goroutines |-> <<>>], finished |-> {}]

NoCall ==
    [op |-> "none", value |-> NilValue, source |-> SourceSplit(NoComponent, NoComponent),
     data |-> ZeroData, panics |-> FALSE, heap0 |-> <<>>, heap |-> <<>>, log |-> <<>>,
     ctxs |-> <<>>, err |-> NoError]

Init ==
    /\ m \in { NewMarshal(sn, d, i, st) :
                    sn \in BOOLEAN, d \in {"", "always", "inline"}, i \in {"", "inline"}, st \in BOOLEAN }
    /\ last = NoCall
    /\ pool = <<>>
    /\ run = Idle

\* Marshal.RegisterSingleUnmarshaler
RegisterSingleUnmarshaler(name, unmarshaler) ==
    /\ Registered(m) < MaxRegistered \/ name \in DOMAIN m.SingleUnmarshalers
    /\ m' = [m EXCEPT !.SingleUnmarshalers = MapSet(@, name, unmarshaler)]
    /\ last' = NoCall
    /\ UNCHANGED <<pool, run>>

\* Marshal.RegisterMultiUnmarshaler
RegisterMultiUnmarshaler(name, unmarshaler) ==
    /\ Registered(m) < MaxRegistered \/ name \in DOMAIN m.MultiUnmarshalers
    /\ m' = [m EXCEPT !.MultiUnmarshalers = MapSet(@, name, unmarshaler)]
    /\ last' = NoCall
    /\ UNCHANGED <<pool, run>>

\* What the caller holds after the call: what it passed, and r, what the
\* call did: log to its fields, ctxs to the contexts of the pool.
CallOf(target, source, data, panics, r) ==
    [op |-> "Unmarshal", value |-> target.value, source |-> source, data |-> data,
     panics |-> panics, heap0 |-> target.heap, heap |-> r.heap,
     log |-> SelectSeq(r.log, LAMBDA e : ~OfPool(e)), ctxs |-> SelectSeq(r.log, OfPool), err |-> r.err]

\* The call has returned r: the caller holds it, and the pool holds what
\* the call left there.
Completed(target, source, data, panics, r) ==
    /\ last' = CallOf(target, source, data, panics, r)
    /\ pool' = Pooled(pool, r.log)
    /\ UNCHANGED <<m, run>>

\* A call of Marshal.Unmarshal with the Data data.  The caller has taken
\* what its previous call returned.
UnmarshalWith(target, source, data, panics, hits) ==
    /\ last = NoCall
    /\ Completed(target, source, data, panics,
                Unmarshal(m, target.value, source, data, panics, target.heap, pool, hits))

\* Marshal.UnmarshalAll: Unmarshal with the zero Data.
UnmarshalAll(target, source, panics, hits) ==
    UnmarshalWith(target, source, ZeroData, panics, hits)

\* The caller takes what the call returned.
Return ==
    /\ last # NoCall
    /\ last' = NoCall
    /\ UNCHANGED <<m, pool, run>>

\* The runtime clears the pool, as it may at any garbage collection.
Collect ==
    /\ pool # <<>>
    /\ pool' = <<>>
    /\ UNCHANGED <<m, last, run>>

\* Whether a conversion would panic is an input of a call; with StrictTyping
\* no conversion is attempted.
Panics == IF m.StrictTyping THEN {FALSE} ELSE BOOLEAN

\* No Get of a call finds a context in the pool.
NoHits == {}

\* The calls that find the pool empty, on a Marshal with any registry.
Next ==
    \/ Return
    \/ Collect
    \/ \E reg \in SingleRegistrations : RegisterSingleUnmarshaler(reg[1], reg[2])
    \/ \E reg \in MultiRegistrations : RegisterMultiUnmarshaler(reg[1], reg[2])
    \/ \E target \in Targets, source \in Sources, panics \in Panics :
            pool = <<>> /\ UnmarshalAll(target, source, panics, NoHits)
    \/ \E target \in Targets, source \in Sources, data \in Datas, panics \in Panics :
            pool = <<>> /\ UnmarshalWith(target, source, data, panics, NoHits)

Spec == Init /\ [][Next]_vars

\* The registries of the Marshals whose calls share the pool.
Registries ==
    { << {<<"always", "FnAlways">>, <<"never", "FnNever">>}, {} >>,
      << {<<"memo", "FnMemo">>, <<"note", "FnNote">>}, {} >>,
      << {<<"port", "FnPort">>}, {<<"list", "FnList">>} >> }

RECURSIVE RegisterAll(_, _)
RegisterAll(map, regs) ==
    IF regs = {} THEN map
    ELSE LET reg == CHOOSE r \in regs : TRUE
         IN  RegisterAll(MapSet(map, reg[1], reg[2]), regs \ {reg})

\* A Marshal after the registrations of regs.
Configured(mm, regs) ==
    [mm EXCEPT !.SingleUnmarshalers = RegisterAll(@, regs[1]),
               !.MultiUnmarshalers = RegisterAll(@, regs[2])]

PoolInit ==
    /\ m \in { Configured(NewMarshal(FALSE, d, "inline", st), regs) :
                    d \in {"", "always"}, st \in BOOLEAN, regs \in Registries }
    /\ last = NoCall
    /\ pool = <<>>
    /\ run = Idle

\* The calls on a Marshal whose registry is complete, whatever the pool
\* holds: every Get of a call of unmarshal, at any depth, may find a context
\* in the pool (hits).
PoolNext ==
    \/ Return
    \/ Collect
    \/ \E target \in Targets, source \in Sources, panics \in Panics, hits \in SUBSET (0..MaxDepth) :
            UnmarshalAll(target, source, panics, hits)
    \/ \E target \in Targets, source \in Sources, data \in Datas, panics \in Panics,
          hits \in SUBSET (0..MaxDepth) :
            UnmarshalWith(target, source, data, panics, hits)

PoolSpec == PoolInit /\ [][PoolNext]_vars

---------------------------------------------------------------------------
(* Concurrent calls, step by step *)

\* The context objects: the address of a context is its identity.
Contexts == 1..MaxContexts

\* The calls of unmarshal in progress of goroutine g.  Each is a frame: the
\* context object it took, where it is (in the loop, or after it with its
\* deferred calls to run, or after the deferred Reset), and how often it has
\* reset and put its context.
Frames(g) == run.stacks[g]
Top(g) == Frames(g)[Len(Frames(g))]

\* The context objects held by calls in progress.
Held == UNION { { Frames(g)[i].ctx : i \in DOMAIN Frames(g) } : g \in Goroutines }

\* Addresses at which new(context) may allocate: those of no live object.
Unallocated == Contexts \ (run.free \cup Held)

\* contextPool.Get returns an object of the pool or, from New, a new one.
Gettable ==
    run.free \cup
        (IF Unallocated = {} THEN {}
         ELSE {CHOOSE c \in Unallocated : \A d \in Unallocated : c <= d})

\* Get that leaves the object it returns in the pool.
AfterGet_Kept(free, c) == free

\* The pool after Get returned c: Get removes what it returns.
AfterGet(free, c) == free \ {c}

\* Line 442: the call takes the context object c.
Pushed(g, c) ==
    run' = [run EXCEPT !.free = AfterGet(@, c),
                       !.stacks[g] = Append(@, [ctx |-> c, pc |-> "loop", resets |-> 0,
                                                 puts |-> 0])]

\* Lines 417-442: goroutine g calls Unmarshal.
Enter(g, c) ==
    /\ Frames(g) = <<>>
    /\ c \in Gettable
    /\ Pushed(g, c)
    /\ UNCHANGED <<m, last, pool>>

\* Lines 470-507 and 442: the loop of the call of g reaches an inlined
\* field and calls unmarshal for it.
Nest(g, c) ==
    /\ Frames(g) # <<>> /\ Top(g).pc = "loop"
    /\ Len(Frames(g)) <= MaxDepth
    /\ m.InlineType # ""
    /\ c \in Gettable
    /\ Pushed(g, c)
    /\ UNCHANGED <<m, last, pool>>

\* The change of the innermost call of g.
Moved(g, frame) == run' = [run EXCEPT !.stacks[g][Len(Frames(g))] = frame]

\* Lines 450-640: the loop of the innermost call of g ends, by a return or
\* by a panic; the deferred calls are to run.
Leave(g) ==
    /\ Frames(g) # <<>> /\ Top(g).pc = "loop"
    /\ Moved(g, [Top(g) EXCEPT !.pc = "deferred"])
    /\ UNCHANGED <<m, last, pool>>

\* Line 446, deferred last and run first: ctx.Reset().
RunReset(g) ==
    /\ Frames(g) # <<>> /\ Top(g).pc = "deferred"
    /\ Moved(g, [Top(g) EXCEPT !.pc = "reset", !.resets = @ + 1])
    /\ UNCHANGED <<m, last, pool>>

\* Line 443, deferred first and run last: contextPool.Put(ctx); the call is over.
RunPut(g) ==
    /\ Frames(g) # <<>> /\ Top(g).pc = "reset"
    /\ run' = [run EXCEPT !.free = @ \cup {Top(g).ctx},
                          !.stacks[g] = SubSeq(@, 1, Len(@) - 1),
                          !.finished = @ \cup {[Top(g) EXCEPT !.pc = "over", !.puts = @ + 1]}]
    /\ UNCHANGED <<m, last, pool>>

\* The runtime clears the pool, as it may at any garbage collection.
Cleanup ==
    /\ run.free # {}
    /\ run' = [run EXCEPT !.free = {}]
    /\ UNCHANGED <<m, last, pool>>

ConcInit ==
    /\ m \in { NewMarshal(FALSE, "", i, FALSE) : i \in {"", "inline"} }
    /\ last = NoCall
    /\ pool = <<>>
    /\ run = Idle

ConcNext ==
    \/ Cleanup
    \/ \E g \in Goroutines :
            \/ \E c \in Contexts : Enter(g, c)
            \/ \E c \in Contexts : Nest(g, c)
            \/ Leave(g)
            \/ RunReset(g)
            \/ RunPut(g)

ConcSpec == ConcInit /\ [][ConcNext]_vars

---------------------------------------------------------------------------
(* Sources with a missing component *)

\* A call of SourceSplit.Lookup, and one of SourceSplit.LookupAll: the
\* caller holds the answer.
SplitLookup(source, key) ==
    /\ last = NoCall
    /\ last' = [op |-> "SourceSplit.Lookup", source |-> source, key |-> key,
                value |-> Lookup(source, key).value, ok |-> Lookup(source, key).ok]
    /\ UNCHANGED <<m, pool, run>>
SplitLookupAll(source, key) ==
    /\ last = NoCall
    /\ last' = [op |-> "SourceSplit.LookupAll", source |-> source, key |-> key,
                value |-> LookupAll(source, key).value, ok |-> LookupAll(source, key).ok]
    /\ UNCHANGED <<m, pool, run>>

\* A call of SourceSmartSplit.Lookup, and one of SourceSmartSplit.LookupAll.
SmartSplitLookup(source, key) ==
    /\ last = NoCall
    /\ last' = [op |-> "SourceSmartSplit.Lookup", source |-> source, key |-> key,
                value |-> SmartLookup(source, key).value,
                ok |-> SmartLookup(source, key).ok]
    /\ UNCHANGED <<m, pool, run>>
SmartSplitLookupAll(source, key) ==
    /\ last = NoCall
    /\ last' = [op |-> "SourceSmartSplit.LookupAll", source |-> source, key |-> key,
                value |-> SmartLookupAll(source, key).value,
                ok |-> SmartLookupAll(source, key).ok]
    /\ UNCHANGED <<m, pool, run>>

\* Marshal.UnmarshalSingle: UnmarshalAll with a SourceSplit that has no
\* multi component.
UnmarshalSingle(target, single, panics) ==
    UnmarshalAll(target, SourceSplit(single, NoComponent), panics, NoHits)

\* Marshal.UnmarshalMulti: UnmarshalAll with a SourceSplit that has no
\* single component.
UnmarshalMulti(target, multi, panics) ==
    UnmarshalAll(target, SourceSplit(NoComponent, multi), panics, NoHits)

SourceInit ==
    /\ m \in { Configured(NewMarshal(sn, d, "inline", st), regs) :
                    sn \in BOOLEAN, d \in {"", "always"}, st \in BOOLEAN, regs \in Registries }
    /\ last = NoCall
    /\ pool = <<>>
    /\ run = Idle

\* The queries of sources made of any components, and the calls of
\* UnmarshalSingle and UnmarshalMulti that find the pool empty.
SourceNext ==
    \/ Return
    \/ Collect
    \/ \E single \in SingleComponents, multi \in MultiComponents,
          key \in {"user", "port", "tags", "Amb", "hollow", "absent"} :
            \/ SplitLookup(SourceSplit(single, multi), key)
            \/ SplitLookupAll(SourceSplit(single, multi), key)
            \/ SmartSplitLookup([SourceSingle |-> single, SourceMulti |-> multi], key)
            \/ SmartSplitLookupAll([SourceSingle |-> single, SourceMulti |-> multi], key)
    \/ \E target \in Targets, single \in SingleComponents, panics \in Panics :
            pool = <<>> /\ UnmarshalSingle(target, single, panics)
    \/ \E target \in Targets, multi \in MultiComponents, panics \in Panics :
            pool = <<>> /\ UnmarshalMulti(target, multi, panics)

SourceSpec == SourceInit /\ [][SourceNext]_vars

---------------------------------------------------------------------------
(* Registrations of nil *)

\* Line 525, the call of getUnmarshaler for a field's type: unmarshal holds
\* what it returned.
Resolve(name) ==
    /\ last = NoCall
    /\ last' = [op |-> "getUnmarshaler", name |-> name,
                single |-> getUnmarshaler(m, name).single,
                multi |-> getUnmarshaler(m, name).multi,
                err |-> getUnmarshaler(m, name).err]
    /\ UNCHANGED <<m, pool, run>>

RegistryInit ==
    /\ m \in { NewMarshal(sn, d, "inline", FALSE) : sn \in BOOLEAN, d \in {"", "always"} }
    /\ last = NoCall
    /\ pool = <<>>
    /\ run = Idle

\* Registrations, among them those of names with a nil function (the
\* Register methods store what they are given), resolutions of a name, and
\* the calls that find the pool empty.
RegistryNext ==
    \/ Return
    \/ Collect
    \/ \E reg \in SingleRegistrations \cup ({"list", "both", "always"} \X {NilFn}) :
            RegisterSingleUnmarshaler(reg[1], reg[2])
    \/ \E reg \in MultiRegistrations \cup ({"list", "both", "always"} \X {NilFn}) :
            RegisterMultiUnmarshaler(reg[1], reg[2])
    \/ \E name \in {"always", "both", "list", "port", "never", "inline"} : Resolve(name)
    \/ \E target \in Targets, source \in Sources, panics \in Panics :
            pool = <<>> /\ UnmarshalAll(target, source, panics, NoHits)

RegistrySpec == RegistryInit /\ [][RegistryNext]_vars

---------------------------------------------------------------------------
(* What a call of Unmarshal did, read from its log *)

Called == last.op = "Unmarshal"
Log == last.log

Front(seq) == SubSeq(seq, 1, Len(seq) - 1)

\* The struct that holds the field of an event, and the field's description.
Holder(e) == Ref(e.addr, Front(e.path))
FieldOf(e) == StructFields(Load(last.heap, Holder(e)).t)[e.path[Len(e.path)]]

\* Two events of the same field.
At(e, f) == e.addr = f.addr /\ e.path = f.path

\* The field's value after the call, and before it: a struct the call
\* itself allocated started from its zero value.
Now(e) == Load(last.heap, Ref(e.addr, e.path))
Before(e) ==
    IF e.addr \in DOMAIN last.heap0
    THEN Load(last.heap0, Ref(e.addr, e.path))
    ELSE ZeroValue(FieldOf(e).Type)

\* The loop reached the field at Log[k].
Reached(k) == Log[k].ev = "field"

\* The field reached at Log[k] was passed over: no query, no call, no
\* conversion and no write is of that field, its value is what it was, and
\* the call did not end there with an error.
Untouched(k) ==
    /\ \A j \in DOMAIN Log : At(Log[j], Log[k]) => j = k
    /\ Now(Log[k]) = Before(Log[k])
    /\ k < Len(Log) => Reached(k + 1)
    /\ k = Len(Log) => last.err = NoError

\* Nothing was written to the field of event e.
NotWritten(e) ==
    /\ \A j \in DOMAIN Log : At(Log[j], e) => Log[j].ev # "set"
    /\ Now(e) = Before(e)

NoTypeTag(fld) == TagGet(fld.Tag, TypeTagKey) = ""
NoNameTag(fld) == TagGet(fld.Tag, NameTagKey) = ""

\* The name the field is decoded with: its type tag, else the default type.
TypOf(fld) == IF NoTypeTag(fld) THEN m.DefaultType ELSE TagGet(fld.Tag, TypeTagKey)

Inlined(fld) == m.InlineType # "" /\ TypOf(fld) = m.InlineType

\* The loop reached the field at Log[k] and went on to resolve its unmarshaler.
Resolved(k) ==
    /\ Reached(k)
    /\ TypOf(FieldOf(Log[k])) # ""
    /\ ~Inlined(FieldOf(Log[k]))
    /\ ~(NoNameTag(FieldOf(Log[k])) /\ m.StrictNameTag)

HasFn(map, name) == name \in DOMAIN map /\ map[name] # NilFn

\* The call returned an error of a field that is not inlined: that of the
\* last field the loop reached.
FieldError ==
    last.err.kind \in {"ErrUnknownType", "ErrFailedToProcessField", "ErrWrongDestType"}
ErrorIndex ==
    CHOOSE k \in DOMAIN Log : Reached(k) /\ \A j \in DOMAIN Log : j > k => ~Reached(j)

---------------------------------------------------------------------------
(* C1 *)

---------------------------------------------------------------------------
(* C2 *)

\* C2 as stated: with StrictNameTag, a field with no name tag is passed over
\* whatever its type tag is, the inline type included.
C2_AsStated ==
    (Called /\ m.StrictNameTag) =>
        \A k \in DOMAIN Log :
            (Reached(k) /\ NoNameTag(FieldOf(Log[k]))) => Untouched(k)

\* C2, amended: with StrictNameTag, a field with no name tag is passed over
\* (no query, no call, no write, no error) for every type it resolves to,
\* registered or not, except the inline type: a field that resolves to the
\* non-empty InlineType is inlined before its name tag is looked at.
C2_UnnamedSkipped ==
    (Called /\ m.StrictNameTag) =>
        \A k \in DOMAIN Log :
            (Reached(k) /\ NoNameTag(FieldOf(Log[k])) /\ ~Inlined(FieldOf(Log[k])))
                => Untouched(k)

\* A field with no name tag and a type that is registered nowhere was passed
\* over, after a field that was decoded.
C2_Witness ==
    /\ Called /\ m.StrictNameTag
    /\ \E k \in DOMAIN Log :
        /\ Reached(k) /\ NoNameTag(FieldOf(Log[k]))
        /\ TypOf(FieldOf(Log[k])) = "ghost"
        /\ ~HasFn(m.SingleUnmarshalers, "ghost") /\ ~HasFn(m.MultiUnmarshalers, "ghost")
        /\ \E j \in DOMAIN Log : j < k /\ Log[j].ev = "set"
    /\ last.err = NoError

---------------------------------------------------------------------------
(* C3 *)

\* The key of a field: its name tag, else its identifier.
ExpectedKey(fld) ==
    IF NoNameTag(fld) THEN fld.Name ELSE TagGet(fld.Tag, NameTagKey)

\* C3: the key the source is queried with, the datum of the context given to
\* the unmarshaler and the datum of an error of the field are the field's
\* name tag, and the field's identifier when it has none (which happens only
\* without StrictNameTag).
C3_SourceKey ==
    /\ Called =>
        \A k \in DOMAIN Log :
            LET e == Log[k]
                fld == FieldOf(e)
            IN  /\ e.ev \in {"lookup", "lookupAll"} =>
                    /\ e.key = ExpectedKey(fld)
                    /\ NoNameTag(fld) => ~m.StrictNameTag
                /\ e.ev = "call" => e.ctx.datum = ExpectedKey(fld)
    /\ (Called /\ FieldError) =>
            ErrDatum(last.err) = ExpectedKey(FieldOf(Log[ErrorIndex]))

\* The source was queried for a field with no name tag under its identifier
\* and had it; and the call ended with an error of such a field.
C3_Witness ==
    /\ Called /\ ~m.StrictNameTag
    /\ \E k \in DOMAIN Log :
        /\ Log[k].ev = "lookup" /\ NoNameTag(FieldOf(Log[k]))
        /\ Log[k].key = FieldOf(Log[k]).Name /\ Log[k].ok
    /\ FieldError
    /\ NoNameTag(FieldOf(Log[ErrorIndex]))
    /\ ErrDatum(last.err) = FieldOf(Log[ErrorIndex]).Name

---------------------------------------------------------------------------
(* C4 *)

\* The unmarshaler called at Log[k] returned an error.
DecoderFailed(k) == Log[k].ev = "call" /\ Log[k].err # ""

\* The field i of the struct that holds the field of e.
Sibling(e, i) == [e EXCEPT !.path = Append(Front(e.path), i)]
LaterSiblings(e) ==
    { Sibling(e, i) : i \in (e.path[Len(e.path)] + 1)..Len(Load(last.heap, Holder(e)).f) }

\* C4: when the unmarshaler of a field returns an error the call stops
\* there: nothing is looked up, called or written after it, the fields
\* written before it hold what was written, and the field and the fields
\* after it hold what they held before the call.
C4_HardStop ==
    Called =>
        \A k \in DOMAIN Log :
            DecoderFailed(k) =>
                /\ k = Len(Log)
                /\ last.err # NoError /\ Returned(last.err)
                /\ \A j \in 1..(k - 1) : Log[j].ev = "set" => Now(Log[j]) = Log[j].val
                /\ NotWritten(Log[k])
                /\ \A f \in LaterSiblings(Log[k]) : Now(f) = Before(f)

\* The second field's unmarshaler failed after the first field was given a
\* new value, and a third field follows.
C4_Witness ==
    /\ Called
    /\ \E k \in DOMAIN Log :
        /\ DecoderFailed(k)
        /\ \E j \in 1..(k - 1) :
                Log[j].ev = "set" /\ Now(Log[j]) = StringVal("one") /\ Before(Log[j]) = StringVal("old")
        /\ Now(Log[k]) = IntVal(7)
        /\ \E f \in LaterSiblings(Log[k]) : Now(f) = StringVal("old")

---------------------------------------------------------------------------
(* C5 *)

\* Whether the type of the field is decoded from one value or from all.
ExpectedKind(fld) ==
    IF HasFn(m.SingleUnmarshalers, TypOf(fld))
    THEN KindSingleUnmarshaler ELSE KindMultiUnmarshaler

\* C5: when the unmarshaler of a field returns an error, the call returns
\* an ErrFailedToProcessField with the field's name, tag, datum, type and
\* kind (single or multi), that unwraps to the error the unmarshaler returned.
C5_FailedToProcessField ==
    Called =>
        \A k \in DOMAIN Log :
            DecoderFailed(k) =>
                LET fld == FieldOf(Log[k])
                IN  /\ last.err.kind = "ErrFailedToProcessField"
                    /\ ErrField(last.err) = fld.Name
                    /\ ErrTag(last.err) = fld.Tag
                    /\ ErrDatum(last.err) = ExpectedKey(fld)
                    /\ ErrTyp(last.err) = TypOf(fld)
                    /\ ErrKind(last.err) = ExpectedKind(fld)
                    /\ ErrKind(last.err) # KindUndef
                    /\ Unwrap(last.err) = Log[k].err

\* A multi-value unmarshaler registered as "never" failed for the field Second.
C5_Witness ==
    /\ Called
    /\ \E k \in DOMAIN Log :
        /\ DecoderFailed(k) /\ Log[k].fn = "FnNeverAll"
        /\ ErrField(last.err) = "Second" /\ ErrTyp(last.err) = "never"
        /\ ErrKind(last.err) = KindMultiUnmarshaler
        /\ Unwrap(last.err) = "never unmarshaler"

---------------------------------------------------------------------------
(* C6 *)

InBoth(typ) == HasFn(m.SingleUnmarshalers, typ) /\ HasFn(m.MultiUnmarshalers, typ)
InNeither(typ) == ~HasFn(m.SingleUnmarshalers, typ) /\ ~HasFn(m.MultiUnmarshalers, typ)

\* C6: whatever was registered, a field that is not inlined and whose type
\* has an unmarshaler in both maps makes the call return an ErrUnknownType
\* that wraps ErrBothTyp, and one whose type has none in either map an
\* ErrUnknownType that wraps ErrUnknownTyp; the source is not queried for
\* the field, no unmarshaler is called and the field is not written.
C6_UnknownType ==
    Called =>
        \A k \in DOMAIN Log :
            LET typ == TypOf(FieldOf(Log[k]))
            IN  (Resolved(k) /\ (InBoth(typ) \/ InNeither(typ))) =>
                    /\ k = Len(Log)
                    /\ last.err.kind = "ErrUnknownType"
                    /\ ErrField(last.err) = FieldOf(Log[k]).Name
                    /\ ErrTyp(last.err) = typ
                    /\ Unwrap(last.err) = IF InBoth(typ) THEN ErrBothTyp ELSE ErrUnknownTyp
                    /\ Now(Log[k]) = Before(Log[k])

\* The call ended at a field whose type is in both maps and that holds
\* the value it held, before the fields that follow it.
C6_Witness ==
    /\ Called
    /\ \E k \in DOMAIN Log :
        /\ Resolved(k) /\ InBoth(TypOf(FieldOf(Log[k])))
        /\ k = Len(Log)
        /\ Now(Log[k]) = StringVal("old")
        /\ LaterSiblings(Log[k]) # {}
    /\ Unwrap(last.err) = ErrBothTyp

---------------------------------------------------------------------------
(* C7 *)

\* The unmarshaler called at Log[k] returned a value (not nil) and no error.
ReturnedValue(k) == Log[k].ev = "call" /\ Log[k].err = "" /\ Log[k].val # NilIface

\* The unmarshaler called at Log[k] returned nil and no error.
ReturnedNil(k) == Log[k].ev = "call" /\ Log[k].err = "" /\ Log[k].val = NilIface

\* C7: with StrictTyping, a returned value of another type than the field's
\* makes the call return an ErrWrongDestType with Assignment true, the type
\* of the value and the type of the field; the field is not written and no
\* conversion is attempted.
C7_StrictAssignment ==
    (Called /\ m.StrictTyping) =>
        \A k \in DOMAIN Log :
            (ReturnedValue(k) /\ Log[k].val.t # FieldOf(Log[k]).Type) =>
                /\ k = Len(Log)
                /\ last.err.kind = "ErrWrongDestType"
                /\ last.err.Assignment
                /\ last.err.ReturnedType = Log[k].val.t
                /\ last.err.DestType = FieldOf(Log[k]).Type
                /\ ErrField(last.err) = FieldOf(Log[k]).Name
                /\ NotWritten(Log[k])
                /\ \A j \in DOMAIN Log : Log[j].ev # "convert"

\* With StrictTyping an int was returned for a uint16 field, after another
\* field was written.
C7_Witness ==
    /\ Called /\ m.StrictTyping
    /\ \E k \in DOMAIN Log :
        /\ ReturnedValue(k)
        /\ Log[k].val = IntVal(22) /\ FieldOf(Log[k]).Type = "uint16"
        /\ \E j \in 1..(k - 1) : Log[j].ev = "set"
    /\ last.err.kind = "ErrWrongDestType" /\ last.err.Assignment
    /\ last.err.ReturnedType = "int" /\ last.err.DestType = "uint16"

---------------------------------------------------------------------------
(* C8 *)

\* The fields of the struct the call was given that have been written.
WrittenFields ==
    { i \in 1..Len(StructFields(Elem(last.value.t))) :
        \E j \in DOMAIN Log :
            Log[j].ev = "set" /\ Log[j].addr = last.value.addr /\ Log[j].path = <<i>> }

\* C8: without StrictTyping, a nil returned with no error for a field that
\* can be set sets the field to the zero value of its type, whatever the
\* type; and decoding the empty source into a struct whose fields are all
\* decoded by an unmarshaler that returns nil succeeds, with the zero
\* value in every field that was decoded.
C8_NilIsZero ==
    (Called /\ ~m.StrictTyping) =>
        /\ \A k \in DOMAIN Log :
            (ReturnedNil(k) /\ FieldOf(Log[k]).Exported) =>
                /\ k < Len(Log)
                /\ Log[k + 1].ev = "set" /\ At(Log[k + 1], Log[k])
                /\ Log[k + 1].val = ZeroValue(FieldOf(Log[k]).Type)
                /\ Now(Log[k]) = ZeroValue(FieldOf(Log[k]).Type)
        /\ (/\ last.value = Pointer("*Opt", 1, <<>>)
            /\ last.source = SourceSplit(SourceSingleMap(EmptyMap), NoComponent)
            /\ HasFn(m.SingleUnmarshalers, "nilv") /\ ~HasFn(m.MultiUnmarshalers, "nilv")) =>
                /\ last.err = NoError
                /\ \A i \in WrittenFields :
                        last.heap[1].f[i] = ZeroValue(StructFields("Opt")[i].Type)
                /\ ~m.StrictNameTag => WrittenFields = 1..Len(StructFields("Opt"))

\* Without StrictTyping and without StrictNameTag the six fields of Opt, a
\* slice, two numbers, a string, a pointer and a struct that held values,
\* are all zero after decoding the empty source.
C8_Witness ==
    /\ Called /\ ~m.StrictTyping /\ ~m.StrictNameTag
    /\ last.value = Pointer("*Opt", 1, <<>>)
    /\ last.source = SourceSplit(SourceSingleMap(EmptyMap), NoComponent)
    /\ last.heap0 = <<Seeded("Opt")>>
    /\ last.heap = <<ZeroValue("Opt")>>
    /\ last.err = NoError
    /\ Cardinality({ k \in DOMAIN Log : ReturnedNil(k) }) = 6

---------------------------------------------------------------------------
(* C9 *)

\* The conversions between different types of the model that Go has:
\* between integers, and from an integer to a string.
Conversions ==
    { <<"int", "uint16">>, <<"uint16", "int">>, <<"int", "string">>, <<"uint16", "string">> }

Convertible(from, to) == from = to \/ <<from, to>> \in Conversions

\* C9: without StrictTyping, a returned value (not nil) whose type cannot be
\* converted to the field's type makes the call return an ErrWrongDestType
\* with Assignment false and no cause, and the field is not written; when it
\* can be converted, the conversion does not panic and the field can be
\* set, the field is set to the converted value and the call returns no
\* ErrWrongDestType for the field.
C9_Conversion ==
    (Called /\ ~m.StrictTyping) =>
        \A k \in DOMAIN Log :
            ReturnedValue(k) =>
                LET v == Log[k].val
                    fld == FieldOf(Log[k])
                IN  /\ ~Convertible(v.t, fld.Type) =>
                        /\ k = Len(Log)
                        /\ last.err.kind = "ErrWrongDestType"
                        /\ ~last.err.Assignment
                        /\ Unwrap(last.err) = ""
                        /\ last.err.ReturnedType = v.t
                        /\ last.err.DestType = fld.Type
                        /\ NotWritten(Log[k])
                    /\ Convertible(v.t, fld.Type) =>
                        /\ k < Len(Log)
                        /\ Log[k + 1].ev = "convert" /\ At(Log[k + 1], Log[k])
                        /\ (Log[k + 1].ok /\ fld.Exported) =>
                                /\ k + 1 < Len(Log)
                                /\ Log[k + 2].ev = "set" /\ At(Log[k + 2], Log[k])
                                /\ Log[k + 2].val = Convert(v, fld.Type)
                                /\ Log[k + 2].val.t = fld.Type
                                /\ Now(Log[k]) = Convert(v, fld.Type)
                                /\ last.err.kind = "ErrWrongDestType" => ErrorIndex > k

\* A uint16 was converted for an int field and for a string field, and then
\* a string was returned for an int field.
C9_Witness ==
    /\ Called /\ ~m.StrictTyping
    /\ \E k \in DOMAIN Log :
        /\ ReturnedValue(k) /\ Log[k].val = Uint16Val(2222)
        /\ FieldOf(Log[k]).Type = "int" /\ Now(Log[k]) = IntVal(2222)
    /\ \E k \in DOMAIN Log :
        /\ ReturnedValue(k) /\ Log[k].val.t = "uint16"
        /\ FieldOf(Log[k]).Type = "string" /\ Now(Log[k]).t = "string"
        /\ Now(Log[k]) # StringVal("old")
    /\ ReturnedValue(Len(Log))
    /\ Log[Len(Log)].val.t = "string" /\ FieldOf(Log[Len(Log)]).Type = "int"
    /\ last.err.kind = "ErrWrongDestType" /\ ~last.err.Assignment

---------------------------------------------------------------------------
(* C10 *)

\* The conversion attempted at Log[k] panicked inside reflectConvert.
ConversionFailed(k) == Log[k].ev = "convert" /\ ~Log[k].ok

---------------------------------------------------------------------------
(* C11 *)

\* The events of the field of Log[k] that are of kind ev.
EventsAt(k, ev) == { j \in DOMAIN Log : At(Log[j], Log[k]) /\ Log[j].ev = ev }

\* What reconciling gives for a returned value v and a field of type t.
ReconciledValue(v, t) ==
    IF v = NilIface THEN ZeroValue(t)
    ELSE IF m.StrictTyping THEN v ELSE Convert(v, t)

\* C11: a single-value unmarshaler is called with the value and the flag
\* that the source's Lookup gives for the field's key, and LookupAll is not
\* asked; a multi-value unmarshaler with those of LookupAll, and Lookup is
\* not asked.  A field that is written holds the returned value, reconciled
\* with its type: without StrictTyping the "port" unmarshaler leaves 2222
\* in a uint16 field for the source port = "2222", and 22 for a source
\* without port.
C11_Dispatch ==
    Called =>
        \A k \in DOMAIN Log :
            Log[k].ev = "call" =>
                LET fld == FieldOf(Log[k])
                    key == ExpectedKey(fld)
                IN  /\ k > 1 /\ At(Log[k - 1], Log[k])
                    /\ Log[k].fn \in SingleFns =>
                        /\ Log[k - 1].ev = "lookup" /\ Log[k - 1].key = key
                        /\ Log[k].s = Lookup(last.source, key).value
                        /\ Log[k].ok = Lookup(last.source, key).ok
                        /\ EventsAt(k, "lookupAll") = {}
                        /\ Cardinality(EventsAt(k, "lookup")) = 1
                    /\ Log[k].fn \in MultiFns =>
                        /\ Log[k - 1].ev = "lookupAll" /\ Log[k - 1].key = key
                        /\ Log[k].l = LookupAll(last.source, key).value
                        /\ Log[k].ok = LookupAll(last.source, key).ok
                        /\ EventsAt(k, "lookup") = {}
                        /\ Cardinality(EventsAt(k, "lookupAll")) = 1
                    /\ Cardinality(EventsAt(k, "call")) = 1
                    /\ EventsAt(k, "set") # {} =>
                            Now(Log[k]) = ReconciledValue(Log[k].val, fld.Type)
                    /\ (Log[k].fn = "FnPort" /\ fld.Type = "uint16" /\ ~m.StrictTyping
                            /\ EventsAt(k, "convert") \cup EventsAt(k, "set") # {}
                            /\ \A j \in EventsAt(k, "convert") : Log[j].ok) =>
                        /\ Lookup(last.source, key) = [value |-> "2222", ok |-> TRUE]
                                => Now(Log[k]) = Uint16Val(2222)
                        /\ ~Lookup(last.source, key).ok => Now(Log[k]) = Uint16Val(22)

\* The "port" unmarshaler was called with ("", false) for a uint16 field
\* that held 7, and the field holds 22.
C11_Witness ==
    /\ Called /\ ~m.StrictTyping
    /\ \E k \in DOMAIN Log :
        /\ Log[k].ev = "call" /\ Log[k].fn = "FnPort"
        /\ Log[k].s = "" /\ ~Log[k].ok
        /\ FieldOf(Log[k]).Type = "uint16"
        /\ Before(Log[k]) = Uint16Val(7)
        /\ Now(Log[k]) = Uint16Val(22)

---------------------------------------------------------------------------
(* C12 *)

\* The loop reached at Log[k] a field that is inlined, a pointer to a struct.
InlinePointer(k) ==
    /\ Reached(k) /\ Inlined(FieldOf(Log[k]))
    /\ Kind(FieldOf(Log[k]).Type) = "ptr"
    /\ Kind(Elem(FieldOf(Log[k]).Type)) = "struct"

\* The "field" events of the struct at address addr.
FieldsOf(addr) == { j \in DOMAIN Log : Reached(j) /\ Log[j].addr = addr /\ Len(Log[j].path) = 1 }

\* The field reached at Log[k] is followed by nothing of its own.
PassedOver(k) == \A j \in DOMAIN Log : At(Log[j], Log[k]) => j = k

\* C12: an inlined pointer that points to a struct before the call points
\* to the same struct after it, no struct is allocated for it, the call
\* goes through the fields of that struct, and those of them that it passes
\* over hold what they held.
C12_InPlace ==
    Called =>
        \A k \in DOMAIN Log :
            (InlinePointer(k) /\ Before(Log[k]).p # 0 /\ FieldOf(Log[k]).Exported) =>
                /\ Now(Log[k]) = Before(Log[k])
                /\ EventsAt(k, "set") = {}
                /\ Len(last.heap) = Len(last.heap0)
                    \/ \E j \in DOMAIN Log : ~At(Log[j], Log[k]) /\ Log[j].ev = "set"
                                                /\ Log[j].val.p > Len(last.heap0)
                /\ Returned(last.err) => k < Len(Log) /\ Log[k + 1].addr = Before(Log[k]).p
                /\ \A j \in FieldsOf(Before(Log[k]).p) :
                        PassedOver(j) => Now(Log[j]) = Before(Log[j])

\* The inlined pointer of Outer pointed to a Preset with values: it still
\* does, the first field of the Preset was decoded and the second, which has
\* no tags, holds its 7.
C12_Witness ==
    /\ Called /\ last.err = NoError
    /\ \E k \in DOMAIN Log :
        /\ InlinePointer(k) /\ Before(Log[k]) = PtrVal("*Preset", 2)
        /\ Now(Log[k]) = PtrVal("*Preset", 2)
        /\ last.heap0[2] = Seeded("Preset")
        /\ last.heap[2].f[1] # last.heap0[2].f[1]
        /\ last.heap[2].f[2] = IntVal(7)
        /\ \E j \in FieldsOf(2) : PassedOver(j)

---------------------------------------------------------------------------
(* C13 *)

\* The loop reached at Log[k] a field that is inlined, a struct.
InlineStruct(k) ==
    /\ Reached(k) /\ Inlined(FieldOf(Log[k]))
    /\ Kind(FieldOf(Log[k]).Type) = "struct"

\* What an unmarshaler gives a string field whose key is key.
DecodedString(key) == StringVal(Lookup(last.source, key).value)

\* C13: an inlined pointer to a struct that is nil before the call is set to
\* a new struct, all zero, whose fields the call then goes through with the
\* same source; after a call without error the pointer is not nil and the
\* fields of the struct hold what was decoded.  An inlined struct is gone
\* through where it is.
C13_Materialize ==
    Called =>
        \A k \in DOMAIN Log :
            /\ (InlinePointer(k) /\ Before(Log[k]).p = 0 /\ FieldOf(Log[k]).Exported) =>
                /\ k < Len(Log)
                /\ Log[k + 1].ev = "set" /\ At(Log[k + 1], Log[k])
                /\ Log[k + 1].val.p > Len(last.heap0)
                /\ Log[k + 1].val.p \notin { Log[j].val.p : j \in 1..k }
                /\ Now(Log[k]) = Log[k + 1].val
                /\ \A j \in FieldsOf(Now(Log[k]).p) :
                        /\ j > k + 1
                        /\ Before(Log[j]) = ZeroValue(FieldOf(Log[j]).Type)
                        /\ PassedOver(j) => Now(Log[j]) = ZeroValue(FieldOf(Log[j]).Type)
                        /\ \A c \in EventsAt(j, "call") :
                                Log[c].s = Lookup(last.source, ExpectedKey(FieldOf(Log[j]))).value
                /\ last.err = NoError =>
                        Cardinality(FieldsOf(Now(Log[k]).p))
                            = Len(StructFields(Elem(FieldOf(Log[k]).Type)))
            /\ (InlineStruct(k) /\ FieldOf(Log[k]).Exported /\ Returned(last.err)
                    /\ StructFields(FieldOf(Log[k]).Type) # <<>>) =>
                /\ k < Len(Log)
                /\ Reached(k + 1)
                /\ Log[k + 1].addr = Log[k].addr /\ Log[k + 1].path = Append(Log[k].path, 1)
                /\ EventsAt(k, "set") = {}

\* In Outer the nil pointer points to a new Inner whose Value was decoded
\* from the source, and the Inner held by value was decoded where it is.
C13_Witness ==
    /\ Called /\ last.err = NoError
    /\ last.value = Pointer("*Outer", 1, <<>>)
    /\ Len(last.heap) = Len(last.heap0) + 1
    /\ \E k \in DOMAIN Log :
        /\ InlinePointer(k) /\ Before(Log[k]).p = 0
        /\ Now(Log[k]) = PtrVal("*Inner", Len(last.heap))
        /\ last.heap[Len(last.heap)].f[1] = StringVal("nv")
    /\ \E k \in DOMAIN Log :
        /\ InlineStruct(k)
        /\ Before(Log[k]) = Seeded("Inner")
        /\ Now(Log[k]).f[1] = StringVal("nv")

---------------------------------------------------------------------------
(* C14 *)

\* The loop reached at Log[k] a field that is inlined and is neither a
\* struct nor a pointer to a struct.
InlineOther(k) ==
    /\ Reached(k) /\ Inlined(FieldOf(Log[k]))
    /\ ~InlinePointer(k) /\ ~InlineStruct(k)

\* C14: a field whose type is the non-empty InlineType and that is neither
\* a struct nor a pointer to a struct (a pointer to something else
\* included) makes the call return an ErrInlineNotStruct with the field's
\* name, tag and type, no datum and the undefined kind; the field is not
\* modified and the call ends there.
C14_InlineNotStruct ==
    Called =>
        \A k \in DOMAIN Log :
            InlineOther(k) =>
                /\ k = Len(Log)
                /\ last.err.kind = "ErrInlineNotStruct"
                /\ ErrField(last.err) = FieldOf(Log[k]).Name
                /\ ErrTag(last.err) = FieldOf(Log[k]).Tag
                /\ ErrTyp(last.err) = m.InlineType
                /\ ErrDatum(last.err) = ""
                /\ ErrKind(last.err) = KindUndef
                /\ Now(Log[k]) = Before(Log[k])
                /\ \A f \in LaterSiblings(Log[k]) : Now(f) = Before(f)

\* After a field that was written, the call ended at an inlined string
\* field with a name tag; a field follows it.
C14_Witness ==
    /\ Called
    /\ \E k \in DOMAIN Log :
        /\ InlineOther(k) /\ FieldOf(Log[k]).Type = "string"
        /\ ~NoNameTag(FieldOf(Log[k]))
        /\ \E j \in 1..(k - 1) : Log[j].ev = "set"
        /\ Now(Log[k]) = StringVal("old")
        /\ LaterSiblings(Log[k]) # {}
    /\ last.err.kind = "ErrInlineNotStruct" /\ ErrField(last.err) = "Bad"

---------------------------------------------------------------------------
(* C15 *)

\* The call returned the error of a field.
FieldLevelError ==
    last.err.kind \in {"ErrInlineNotStruct", "ErrUnknownType", "ErrFailedToProcessField",
                        "ErrWrongDestType"}

\* The inlined fields the loop was inside when it reached Log[k]: those
\* reached before whose struct is the one that holds Log[k], or holds it
\* through further inlined fields.
RECURSIVE Enclosing(_, _)
Enclosing(k, n) ==
    IF n = 0 THEN {}
    ELSE LET outer ==
                { j \in 1..(k - 1) :
                    /\ Reached(j) /\ Inlined(FieldOf(Log[j]))
                    /\ \/ InlineStruct(j) /\ Log[j].addr = Log[k].addr
                                          /\ Log[j].path = Front(Log[k].path)
                       \/ InlinePointer(j) /\ Len(Log[k].path) = 1
                                           /\ Now(Log[j]).p = Log[k].addr
                                           /\ ~(Log[j].addr = Log[k].addr /\ Len(Log[j].path) = 1) }
         IN  outer \cup UNION { Enclosing(j, n - 1) : j \in outer }

\* C15: when the call for an inlined struct returns an error, the outer
\* call returns that very error, with the name, tag and type of the field
\* of the inlined struct where it arose, and goes through no further field
\* of any enclosing struct; at every depth.
C15_Propagated ==
    (Called /\ FieldLevelError) =>
        LET e == ErrorIndex
        IN  /\ ErrField(last.err) = FieldOf(Log[e]).Name
            /\ ErrTag(last.err) = FieldOf(Log[e]).Tag
            /\ ErrTyp(last.err) = TypOf(FieldOf(Log[e]))
            /\ \A j \in DOMAIN Log : j > e => At(Log[j], Log[e])
            /\ DecoderFailed(Len(Log)) =>
                    last.err = ErrFailedToProcessField(Log[Len(Log)].ctx, Log[Len(Log)].err)
            /\ \A o \in Enclosing(e, MaxDepth + 1) :
                    /\ ErrField(last.err) # FieldOf(Log[o]).Name
                    /\ \A f \in LaterSiblings(Log[o]) : Now(f) = Before(f)

\* The unmarshaler of the field Second failed two inlined structs deep;
\* the call returned its error, and the fields after the two inlined
\* fields hold what they held.
C15_Witness ==
    /\ Called /\ last.value = Pointer("*Wrap", 1, <<>>)
    /\ last.err.kind = "ErrFailedToProcessField"
    /\ ErrField(last.err) = "Second"
    /\ Cardinality(Enclosing(ErrorIndex, MaxDepth + 1)) = 2
    /\ last.heap[1].f[1] = StringVal("")
    /\ last.heap[1].f[3] = StringVal("old")
    /\ last.heap[1].f[2].f[2] = StringVal("old")

---------------------------------------------------------------------------
(* C16 *)

NilTarget(v) ==
    \/ v = NilValue
    \/ v.k = "ptr" /\ v.addr = 0 /\ Kind(v.t) = "ptr" /\ Kind(Elem(v.t)) = "struct"

NotPointerToStruct(v) ==
    \/ v.k = "val"
    \/ v.k = "ptr" /\ Kind(v.t) = "ptr" /\ Kind(Elem(v.t)) # "struct"

NoState(err) ==
    /\ ErrField(err) = "" /\ ErrTag(err) = NoTag /\ ErrDatum(err) = ""
    /\ ErrTyp(err) = "" /\ ErrKind(err) = KindUndef

\* C16: for a nil target, a nil pointer to a struct included, the call
\* returns ErrDestIsNil, and for a target that is no pointer to a struct it
\* returns ErrNotPointerToStruct; no field is gone through, the source is
\* not queried, no unmarshaler is called, and the error has no field, tag,
\* datum or type and the undefined kind.
C16_AsStated ==
    Called =>
        /\ NilTarget(last.value) =>
                last.err = ErrDestIsNil /\ Log = <<>> /\ NoState(last.err)
        /\ NotPointerToStruct(last.value) =>
                last.err = ErrNotPointerToStruct /\ Log = <<>> /\ NoState(last.err)

---------------------------------------------------------------------------
(* C17 *)

\* The entries of a data store: those of the global map, and those of the
\* local map of every field.
Entries(data) == [Globals |-> data.Globals.at, Locals |-> data.Locals.at]

\* The data store the caller of Unmarshal holds: SetGlobal and SetLocal make
\* its maps where they are nil.
Made(data) ==
    [Globals |-> [data.Globals EXCEPT !.made = TRUE],
     Locals |-> [data.Locals EXCEPT !.made = TRUE]]

\* The entries of the caller's store when the unmarshaler of Log[k] is called.
CallerStore(k) == Entries(Visible(Made(last.data), SubSeq(Log, 1, k - 1)))

\* An unmarshaler called before Log[k] wrote to the store.
WrittenBefore(k) == \E j \in 1..(k - 1) : Log[j].w # <<>>

\* C17: whatever Data the call is given, the zero Data included, every
\* unmarshaler called, in an inlined struct or not, gets a context whose
\* GetGlobal and Get return the entries that the unmarshalers called before
\* it in the same call have written into that Data; no entry is lost from
\* one field to the next.
C17_AsStated ==
    Called =>
        \A k \in DOMAIN Log :
            Log[k].ev = "call" => Entries(Log[k].ctx.data) = CallerStore(k)

\* The same, for a Data whose maps the caller has made before the call.
C17_MadeShared ==
    (Called /\ last.data.Globals.made /\ last.data.Locals.made) =>
        \A k \in DOMAIN Log :
            Log[k].ev = "call" => Entries(Log[k].ctx.data) = CallerStore(k)

\* With made maps the unmarshaler of the last field of Shared, after the
\* inlined struct, was given the global entry written for the first field.
C17_MadeWitness ==
    /\ Called /\ last.data = MadeData /\ last.err = NoError
    /\ \E k \in DOMAIN Log :
            /\ Log[k].ev = "call" /\ Log[k].fn = "FnMemo" /\ Log[k].ctx.field = "B"
            /\ GetGlobal(Log[k].ctx, "k") = StringVal("jane")
            /\ Log[k].val = StringVal("jane")
            /\ \E j \in 1..(k - 1) : Log[j].ctx.field = "C" /\ Log[j].val = StringVal("jane")

\* With the zero Data the unmarshaler of the field C of the inlined struct
\* was given no entry though one was written for the field A before.
C17_ZeroWitness ==
    /\ Called /\ last.data = ZeroData
    /\ \E k \in DOMAIN Log :
            /\ Log[k].ev = "call" /\ Log[k].fn = "FnMemo" /\ Log[k].ctx.field = "C"
            /\ WrittenBefore(k)
            /\ GetGlobal(Log[k].ctx, "k") = NilIface

---------------------------------------------------------------------------
(* C18 *)

\* The events of the pool of the last call.
Ctxs == last.ctxs

\* The call of unmarshal that took its context at Ctxs[g] put it back at
\* Ctxs[p]: the first put of the same struct after g.
PutOf(g, p) ==
    /\ Ctxs[p].ev = "put" /\ p > g /\ At(Ctxs[p], Ctxs[g])
    /\ \A q \in (g + 1)..(p - 1) : ~(Ctxs[q].ev = "put" /\ At(Ctxs[q], Ctxs[g]))

\* All but the tag of a context is what it is in a new context.
ResetButTag(ctx) == [ctx EXCEPT !.tag = NoTag] = NewContext

\* The program goes on after the call: the stack was not exhausted.
Survived == last.err # StackOverflow

\* C18: every call of unmarshal that took a context, whether it returned
\* nil or an error or panicked, reset the context and then put it back,
\* and the context put back, as every context in the pool, has no field,
\* no tag, no datum, no type, the undefined kind and the zero Data.
C18_AsStated ==
    /\ \A i \in DOMAIN pool : pool[i] = NewContext
    /\ (Called /\ Survived) =>
            \A g \in DOMAIN Ctxs :
                Ctxs[g].ev = "get" =>
                    \E p \in DOMAIN Ctxs :
                        /\ PutOf(g, p)
                        /\ Ctxs[p - 1].ev = "reset" /\ At(Ctxs[p - 1], Ctxs[g])
                        /\ Ctxs[p - 1].ctx = NewContext
                        /\ Ctxs[p].ctx = NewContext

\* The same but for the tag, which the context put back may keep.
C18_ResetButTag ==
    /\ \A i \in DOMAIN pool : ResetButTag(pool[i])
    /\ (Called /\ Survived) =>
            \A g \in DOMAIN Ctxs :
                Ctxs[g].ev = "get" =>
                    \E p \in DOMAIN Ctxs :
                        /\ PutOf(g, p)
                        /\ Ctxs[p - 1].ev = "reset" /\ At(Ctxs[p - 1], Ctxs[g])
                        /\ ResetButTag(Ctxs[p - 1].ctx)
                        /\ Ctxs[p].ctx = Ctxs[p - 1].ctx

\* A call that failed at a field left a context with that field's tag in
\* the pool.
C18_StaleTag ==
    /\ Called /\ last.err.kind = "ErrFailedToProcessField"
    /\ pool # <<>> /\ pool[Len(pool)].tag = ErrTag(last.err)
    /\ pool[Len(pool)].tag # NoTag

---------------------------------------------------------------------------
(* C20 *)

\* The last call left the caller what r, a call of unmarshal, leaves: the
\* same values in the same places, the same queries, calls of unmarshalers
\* with the same contexts, conversions and writes in the same order, and
\* the same error or none.
SameOutcome(r) ==
    /\ last.heap = r.heap
    /\ last.log = SelectSeq(r.log, LAMBDA e : ~OfPool(e))
    /\ last.err = r.err

\* The Get at Ctxs[g] took a context that an earlier call had put back
\* with the tag of one of its fields.
Reused(g) == Ctxs[g].ev = "get" /\ Ctxs[g].ok /\ Ctxs[g].ctx.tag # NoTag

\* C20: whatever the pool holds from the calls made before, and whichever
\* of them a call takes, a call with the same Marshal, source, Data and
\* target leaves what it leaves when every context it takes is new: the
\* same field values and the same error or none.
C20_Idempotent ==
    Called =>
        SameOutcome(Unmarshal(m, last.value, last.source, last.data, last.panics,
                              last.heap0, <<>>, NoHits))

\* A call took a context with the tag of a field of an earlier call, went
\* through fields with it and failed at one, as it does with a new context.
C20_Witness ==
    /\ Called /\ last.err.kind = "ErrFailedToProcessField"
    /\ \E g \in DOMAIN Ctxs : Reused(g) /\ Ctxs[g].ctx.tag # ErrTag(last.err)
    /\ \E k \in DOMAIN Log : Log[k].ev = "set"

---------------------------------------------------------------------------
(* C19 *)

\* The calls of unmarshal in progress: goroutine and depth.
InProgress == { gi \in Goroutines \X (1..MaxDepth + 1) : gi[2] \in DOMAIN Frames(gi[1]) }

CtxOf(gi) == Frames(gi[1])[gi[2]].ctx

\* The call encloses another: same goroutine, smaller depth.
Encloses(outer, inner) == outer[1] = inner[1] /\ outer[2] < inner[2]

\* C19: at every step of every interleaving of the calls of the goroutines
\* and of their nested calls, no two calls in progress hold the same
\* context object, a nested call holds another object than every call
\* that encloses it, no object held is in the pool, every call that is over
\* has reset its context once and put it back once, and no call in
\* progress has reset it more than once or put it back.
C19_Exclusive ==
    /\ \A a \in InProgress, b \in InProgress : a # b => CtxOf(a) # CtxOf(b)
    /\ \A a \in InProgress, b \in InProgress : Encloses(a, b) => CtxOf(a) # CtxOf(b)
    /\ Held \cap run.free = {}
    /\ \A f \in run.finished : f.resets = 1 /\ f.puts = 1
    /\ \A a \in InProgress :
            LET f == Frames(a[1])[a[2]]
            IN  f.puts = 0 /\ f.resets = (IF f.pc = "reset" THEN 1 ELSE 0)

\* Every goroutine is in a call, one of them in a nested call that has
\* reset its context and not yet put it back, after calls that are over,
\* while the pool holds a context object put back.
C19_Witness ==
    /\ \A g \in Goroutines : Frames(g) # <<>>
    /\ \E g \in Goroutines : Len(Frames(g)) >= 2 /\ Top(g).pc = "reset"
    /\ run.finished # {}
    /\ run.free # {}

---------------------------------------------------------------------------
(* C23 *)

\* The call panicked with the message msg.
Panicked(msg) == last.err = Panic(msg)

\* C23: with StrictTyping, after an unmarshaler has returned nil and no
\* error the call returns: the field is set to a value assignable to its
\* type, or the call returns ErrWrongDestType with Assignment; it does not
\* panic.
C23_AsStated ==
    (Called /\ m.StrictTyping) =>
        \A k \in DOMAIN Log :
            ReturnedNil(k) =>
                /\ Returned(last.err)
                /\ \/ /\ k < Len(Log)
                      /\ Log[k + 1].ev = "set" /\ At(Log[k + 1], Log[k])
                      /\ AssignableTo(Log[k + 1].val.t, FieldOf(Log[k]).Type)
                   \/ /\ last.err.kind = "ErrWrongDestType" /\ last.err.Assignment
                      /\ ErrField(last.err) = FieldOf(Log[k]).Name

\* With StrictTyping an unmarshaler returned nil and no error, and the call
\* panicked at rValue.Type() of line 622, having set nothing.
C23_TypePanic ==
    /\ Called /\ m.StrictTyping /\ Log # <<>>
    /\ ReturnedNil(Len(Log))
    /\ Panicked(TypePanic)
    /\ \A k \in DOMAIN Log : Log[k].ev # "set"

\* With StrictTyping every call in which an unmarshaler returned nil and no
\* error ended there, with that panic.
C23_AlwaysPanics ==
    (Called /\ m.StrictTyping) =>
        \A k \in DOMAIN Log :
            ReturnedNil(k) => k = Len(Log) /\ Panicked(TypePanic)

---------------------------------------------------------------------------
(* C24 *)

\* The default type is the inline type.
DefaultInlines == m.InlineType # "" /\ m.DefaultType = m.InlineType

\* Something of the field reached at Log[k] went to the registry or beyond:
\* a query of the source, a call of an unmarshaler, or an ErrUnknownType.
Decoded(k) ==
    \/ \E j \in DOMAIN Log : At(Log[j], Log[k]) /\ Log[j].ev \in {"lookup", "lookupAll", "call"}
    \/ /\ last.err.kind = "ErrUnknownType" /\ k = ErrorIndex

\* The loop went into the struct of the field reached at Log[k]: the next
\* field reached is the first one of that struct, held by value or pointed to.
WentInto(k) ==
    /\ k < Len(Log)
    /\ \E j \in (k + 1)..Len(Log) :
            /\ Reached(j)
            /\ \A i \in (k + 1)..(j - 1) : ~Reached(i)
            /\ \/ Log[j].addr = Log[k].addr /\ Log[j].path = Append(Log[k].path, 1)
               \/ Log[j].addr = Now(Log[k]).p /\ Log[j].path = <<1>>

---------------------------------------------------------------------------
(* C25 *)

\* The place of the field at (addr, path) in the struct the call was given:
\* the indices of the fields that lead to it, through structs held by value
\* (the path) and through inlined pointers (from one struct to another).
RECURSIVE TrailOf(_, _, _)
TrailOf(addr, path, n) ==
    IF addr = last.value.addr \/ n = 0
    THEN path
    ELSE LET j == CHOOSE j \in DOMAIN Log : InlinePointer(j) /\ Now(Log[j]).p = addr
         IN  TrailOf(Log[j].addr, Log[j].path, n - 1) \o path

Trail(k) == TrailOf(Log[k].addr, Log[k].path, MaxDepth + 1)

\* Declaration order, depth first: a field comes before the fields of its
\* struct, and these before the fields declared after it.
RECURSIVE Precedes(_, _)
Precedes(a, b) ==
    IF b = <<>> THEN FALSE
    ELSE IF a = <<>> THEN TRUE
    ELSE IF Head(a) # Head(b) THEN Head(a) < Head(b)
    ELSE Precedes(Tail(a), Tail(b))

IsCall(k) == Log[k].ev = "call"

\* The field reached at Log[k] has an unmarshaler to be called.
HasUnmarshaler(k) ==
    Resolved(k) /\ getUnmarshaler(m, TypOf(FieldOf(Log[k]))).err = ""

\* C25: the loop reaches the fields in declaration order, depth first
\* through the inlined structs, and so are the unmarshalers called: those of
\* an inlined struct after those of the fields declared before it and
\* before those of the fields declared after it.  Every call of an
\* unmarshaler is that of the field the loop reached last, and a field with
\* an unmarshaler has it called once, also when it returns an error.
C25_InOrder ==
    Called =>
        /\ \A j \in DOMAIN Log, k \in DOMAIN Log :
                (j < k /\ Reached(j) /\ Reached(k)) => Precedes(Trail(j), Trail(k))
        /\ \A j \in DOMAIN Log, k \in DOMAIN Log :
                (j < k /\ IsCall(j) /\ IsCall(k)) => Precedes(Trail(j), Trail(k))
        /\ \A c \in DOMAIN Log :
                IsCall(c) =>
                    \E k \in 1..(c - 1) :
                        /\ Reached(k) /\ At(Log[c], Log[k])
                        /\ \A i \in (k + 1)..c : ~Reached(i)
        /\ \A k \in DOMAIN Log :
                HasUnmarshaler(k) => Cardinality(EventsAt(k, "call")) = 1

\* In Wrap the unmarshalers were called for Head, then two inlined structs
\* deep for First and for Second, which failed; it was called once.
C25_Witness ==
    /\ Called /\ last.value = Pointer("*Wrap", 1, <<>>)
    /\ last.err.kind = "ErrFailedToProcessField" /\ ErrField(last.err) = "Second"
    /\ \E a \in DOMAIN Log, b \in DOMAIN Log, c \in DOMAIN Log :
            /\ a < b /\ b < c /\ c = Len(Log)
            /\ IsCall(a) /\ IsCall(b) /\ IsCall(c)
            /\ Trail(a) = <<1>> /\ Trail(b) = <<2, 1, 1>> /\ Trail(c) = <<2, 1, 2>>

---------------------------------------------------------------------------
(* C26 *)

\* The structs the call allocated for inlined pointers that were nil.
Allocated ==
    { k \in DOMAIN Log :
        /\ Log[k].ev = "set" /\ Kind(Log[k].val.t) = "ptr"
        /\ Log[k].val.p > Len(last.heap0) }

\* C26: every call comes to an end, with nil or with its first error, also
\* for a struct with an inlined pointer to its own type that is nil: the
\* calls of unmarshal do not nest until the stack is exhausted.
C26_AsStated ==
    Called => last.err # StackOverflow

\* Node has an inlined field Next *Node.  The call found it nil, allocated
\* a Node for it and called unmarshal for that Node, whose Next is nil
\* again, and so at every depth: as many Nodes as there are depths, each
\* like the one before, and no end but that of the stack.
C26_Overflow ==
    /\ Called /\ last.value = Pointer("*Node", 1, <<>>)
    /\ last.err = StackOverflow
    /\ Cardinality(Allocated) = MaxDepth + 1
    /\ \A k \in Allocated :
            /\ FieldOf(Log[k]).Name = "Next"
            /\ Log[k].val.p = Log[k].addr + 1
            /\ Before(Log[k]).p = 0

\* A call for a Node goes on to the stack's end whenever Next is inlined,
\* unless an error of the field V ends it.
C26_NodeNeverEnds ==
    (/\ Called /\ last.value = Pointer("*Node", 1, <<>>)
     /\ m.InlineType = "inline" /\ Returned(last.err)) =>
        last.err.kind \in {"ErrUnknownType", "ErrFailedToProcessField", "ErrWrongDestType"}

---------------------------------------------------------------------------
(* C27 *)

\* What the methods Field, Tag, Datum, Typ and Kind of a context return.
Accessors(ctx) ==
    [Field |-> ctx.field, Tag |-> ctx.tag, Datum |-> ctx.datum, Typ |-> ctx.typ,
     Kind |-> ctx.kind]

\* The call at Log[c] comes after a field of the same struct that was
\* inlined, or after one that was passed over.
AfterInlined(c) ==
    \E k \in 1..(c - 1) :
        /\ Reached(k) /\ Inlined(FieldOf(Log[k]))
        /\ Holder(Log[k]) = Holder(Log[c]) /\ \E j \in (k + 1)..(c - 1) : IsCall(j)
AfterSkipped(c) ==
    \E k \in 1..(c - 1) :
        /\ Reached(k) /\ PassedOver(k) /\ ~Inlined(FieldOf(Log[k]))
        /\ Holder(Log[k]) = Holder(Log[c])

\* C27: whenever an unmarshaler is called, at any depth, its context
\* returns the name and the tag of the field it is called for, the key the
\* source was asked for, the type the field is decoded with, and the kind:
\* single for a single unmarshaler and multi for a multi unmarshaler; so it
\* is after an inlined struct and after fields passed over.
C27_ContextOfField ==
    Called =>
        \A c \in DOMAIN Log :
            IsCall(c) =>
                LET fld == FieldOf(Log[c])
                    tagTyp == TagGet(fld.Tag, TypeTagKey)
                    tagName == TagGet(fld.Tag, NameTagKey)
                IN  /\ Accessors(Log[c].ctx) =
                        [Field |-> fld.Name, Tag |-> fld.Tag,
                         Datum |-> IF tagName = "" THEN fld.Name ELSE tagName,
                         Typ |-> IF tagTyp = "" THEN m.DefaultType ELSE tagTyp,
                         Kind |-> IF Log[c].fn \in SingleFns
                                  THEN KindSingleUnmarshaler ELSE KindMultiUnmarshaler]
                    /\ Log[c].fn \in SingleFns \cup MultiFns
                    /\ Log[c - 1].ev = (IF Log[c].fn \in SingleFns THEN "lookup" ELSE "lookupAll")
                    /\ Log[c - 1].key = Log[c].ctx.datum

\* The unmarshaler of the field B of Shared was called after those of the
\* inlined struct, with a context that is all of B.
C27_Witness ==
    /\ Called /\ last.value = Pointer("*Shared", 1, <<>>)
    /\ \E c \in DOMAIN Log :
            /\ IsCall(c) /\ AfterInlined(c)
            /\ Accessors(Log[c].ctx) =
                    [Field |-> "B", Tag |-> StructTag("memo", "port"), Datum |-> "port",
                     Typ |-> "memo", Kind |-> KindSingleUnmarshaler]

\* An unmarshaler was called for a field that comes after a field passed over.
C27_AfterSkipped ==
    /\ Called
    /\ \E c \in DOMAIN Log : IsCall(c) /\ AfterSkipped(c) /\ Log[c].ctx.kind = KindMultiUnmarshaler

---------------------------------------------------------------------------
(* C28 *)

\* The field reached at Log[k] is not exported.
Unexposed(k) == Reached(k) /\ ~FieldOf(Log[k]).Exported

\* C28: a field that is not exported is passed over, whatever its tags and
\* the default type: the source is not asked for it, no unmarshaler is
\* called for it, it is not written, and the call goes on after it or
\* ends without an error.
C28_AsStated ==
    Called => \A k \in DOMAIN Log : Unexposed(k) => Untouched(k)

\* The source was asked for the unexported field secret of Hidden, the
\* unmarshaler was called for it, and the call panicked when setting it.
C28_SetPanic ==
    /\ Called /\ last.value = Pointer("*Hidden", 1, <<>>)
    /\ Panicked(SetPanic)
    /\ \E k \in DOMAIN Log :
            /\ Unexposed(k) /\ FieldOf(Log[k]).Name = "secret"
            /\ EventsAt(k, "lookup") # {} /\ EventsAt(k, "call") # {}
            /\ EventsAt(k, "set") = {}
    /\ last.heap[1].f[3] = StringVal("old")

\* An unexported field is only passed over when it resolves to no type or,
\* with StrictNameTag, has no name tag; else the call ends at it, with a
\* panic unless an error comes first.
C28_EndsThere ==
    Called =>
        \A k \in DOMAIN Log :
            (Unexposed(k) /\ ~Untouched(k)) =>
                /\ k = ErrorIndex
                /\ ~Returned(last.err) \/ FieldLevelError

---------------------------------------------------------------------------
(* C30 *)

\* The calls before Log[c] whose unmarshaler stored the local entry
\* (field, key), and those that stored the global entry key.
StoredLocal(c, field, key) ==
    { j \in 1..(c - 1) :
        \E i \in DOMAIN Log[j].w :
            Log[j].w[i].scope = "local" /\ Log[j].w[i].field = field /\ Log[j].w[i].key = key }
StoredGlobal(c, key) ==
    { j \in 1..(c - 1) :
        \E i \in DOMAIN Log[j].w : Log[j].w[i].scope = "global" /\ Log[j].w[i].key = key }

\* The entry in a Data with made maps is what was stored there last; nil
\* when nothing was.
LastStored(js) ==
    IF js = {} THEN NilIface
    ELSE Log[CHOOSE j \in js : \A i \in js : i <= j].w[1].value

\* The unmarshalers FnNote and FnMemo return what Get and GetGlobal gave
\* them, and store and return the value of the source when it was nil.
Gave(c, entry) ==
    IF entry = NilIface
    THEN Log[c].val = StringVal(Log[c].s) /\ Log[c].w # <<>>
    ELSE Log[c].val = entry /\ Log[c].w = <<>>

\* C30: while the field F is decoded, Get(key) of the context is the local
\* entry stored under the name of F and key, F's name alone, so that a field
\* of an inlined struct with the name of a field of the outer struct gets
\* the entry of that field; GetGlobal(key) is the global entry of key;
\* both are nil when the store of the context has no such entry.
C30_LocalByName ==
    Called =>
        \A c \in DOMAIN Log :
            IsCall(c) =>
                LET name == FieldOf(Log[c]).Name
                    local == IF last.data.Locals.made
                             THEN LastStored(StoredLocal(c, name, "k")) ELSE NilIface
                    global == IF last.data.Globals.made
                              THEN LastStored(StoredGlobal(c, "k")) ELSE NilIface
                IN  /\ Get(Log[c].ctx, "k") = local
                    /\ GetGlobal(Log[c].ctx, "k") = global
                    /\ Get(Log[c].ctx, "other") = NilIface
                    /\ Log[c].fn = "FnNote" => Gave(c, local)
                    /\ Log[c].fn = "FnMemo" => Gave(c, global)

\* The unmarshaler of the field N of the struct inlined in Shared, whose
\* key in the source is another, got from Get what was stored for the field
\* N of Shared, and the field holds it.
C30_Witness ==
    /\ Called /\ last.value = Pointer("*Shared", 1, <<>>) /\ last.data = MadeData
    /\ last.err = NoError
    /\ \E c \in DOMAIN Log :
            /\ IsCall(c) /\ Log[c].fn = "FnNote" /\ Log[c].path = <<3, 1>>
            /\ Log[c].s = "2222" /\ Log[c].ctx.datum = "port"
            /\ Get(Log[c].ctx, "k") = StringVal("jane")
            /\ Log[c].val = StringVal("jane")
    /\ last.heap[1].f[3].f[1] = StringVal("jane")

---------------------------------------------------------------------------
(* C21 *)

\* The call events of the last call that invoked a multi-value, or a
\* single-value, unmarshaler.
MultiCalls == { k \in DOMAIN Log : IsCall(k) /\ Log[k].fn \in MultiFns }
SingleCalls == { k \in DOMAIN Log : IsCall(k) /\ Log[k].fn \in SingleFns }

\* What the single, and the multi, component of the asked source answers.
OfSingle == SingleMapLookup(last.source.SourceSingle, last.key)
OfMulti == MultiMapLookupAll(last.source.SourceMulti, last.key)

\* C21: a SourceSplit without a single component answers every Lookup with
\* ("", false), one without a multi component every LookupAll with the empty
\* list and false, and a component that is there gives the answer; so under
\* UnmarshalSingle every multi-value unmarshaler is called with the empty
\* list and false, and under UnmarshalMulti every single-value unmarshaler
\* with "" and false.
C21_MissingComponent ==
    /\ last.op = "SourceSplit.Lookup" =>
           IF last.source.SourceSingle = NoComponent
           THEN last.value = "" /\ ~last.ok
           ELSE last.value = OfSingle.value /\ last.ok = OfSingle.ok
    /\ last.op = "SourceSplit.LookupAll" =>
           IF last.source.SourceMulti = NoComponent
           THEN last.value = <<>> /\ ~last.ok
           ELSE last.value = OfMulti.value /\ last.ok = OfMulti.ok
    /\ Called /\ last.source.SourceMulti = NoComponent =>
           \A k \in MultiCalls : Log[k].l = <<>> /\ ~Log[k].ok
    /\ Called /\ last.source.SourceSingle = NoComponent =>
           \A k \in SingleCalls : Log[k].s = "" /\ ~Log[k].ok

\* UnmarshalSingle of a source that has the key called a multi-value
\* unmarshaler.
C21_Witness ==
    /\ Called
    /\ last.source.SourceMulti = NoComponent
    /\ \E k \in MultiCalls :
          Log[k].ctx.datum \in DOMAIN last.source.SourceSingle.single

\* UnmarshalMulti of a source that has the key called a single-value
\* unmarshaler.
C21_UnderMulti ==
    /\ Called
    /\ last.source.SourceSingle = NoComponent
    /\ \E k \in SingleCalls :
          Log[k].ctx.datum \in DOMAIN last.source.SourceMulti.multi

\* A SourceSplit with one component was asked for a key the component has
\* through the operation of the other.
C21_AskedMissing ==
    \/ /\ last.op = "SourceSplit.Lookup"
       /\ last.source.SourceSingle = NoComponent
       /\ OfMulti.ok
    \/ /\ last.op = "SourceSplit.LookupAll"
       /\ last.source.SourceMulti = NoComponent
       /\ OfSingle.ok

---------------------------------------------------------------------------
(* C22 *)

\* The asked source has a single, and a multi, component.
HasSingle == last.source.SourceSingle # NoComponent
HasMulti == last.source.SourceMulti # NoComponent

C22_Wrapped ==
    /\ last.op = "SourceSmartSplit.LookupAll"
    /\ ~HasMulti
    /\ OfSingle.ok

\* Lookup of a key at which the only component, a multi one, has an empty
\* list, and of one at which it has more than one element.
C22_Hollow ==
    /\ last.op = "SourceSmartSplit.Lookup"
    /\ ~HasSingle
    /\ OfMulti.ok
    /\ OfMulti.value = <<>>
C22_First ==
    /\ last.op = "SourceSmartSplit.Lookup"
    /\ ~HasSingle
    /\ OfMulti.ok
    /\ Len(OfMulti.value) > 1

\* Lookup and LookupAll of a key both components have.
C22_Both ==
    /\ last.op \in {"SourceSmartSplit.Lookup", "SourceSmartSplit.LookupAll"}
    /\ OfSingle.ok
    /\ OfMulti.ok

---------------------------------------------------------------------------
(* C29 *)

\* The name is registered with nil, and with a function, in a map.
NilIn(map, name) == name \in DOMAIN map /\ map[name] = NilFn
FnIn(map, name) == name \in DOMAIN map /\ map[name] # NilFn

\* The resolution of a name was the last step.
ResolvedName == last.op = "getUnmarshaler"

\* C29: a name registered with nil counts as not registered in that map: nil
\* in one map and an unmarshaler in the other resolves to the unmarshaler
\* with no error, a name registered only with nil gives the unknown-type
\* error, and a resolution never gives no unmarshaler and no error; so every
\* unmarshaler called is a function.
C29_NilUnregistered ==
    /\ ResolvedName =>
          /\ NilIn(m.SingleUnmarshalers, last.name) /\ FnIn(m.MultiUnmarshalers, last.name) =>
                /\ last.err = ""
                /\ last.multi = m.MultiUnmarshalers[last.name]
                /\ last.single = NilFn
          /\ NilIn(m.MultiUnmarshalers, last.name) /\ FnIn(m.SingleUnmarshalers, last.name) =>
                /\ last.err = ""
                /\ last.single = m.SingleUnmarshalers[last.name]
                /\ last.multi = NilFn
          /\ /\ NilIn(m.SingleUnmarshalers, last.name) \/ NilIn(m.MultiUnmarshalers, last.name)
             /\ ~FnIn(m.SingleUnmarshalers, last.name)
             /\ ~FnIn(m.MultiUnmarshalers, last.name)
             => last.err = ErrUnknownTyp
          /\ ~(last.single = NilFn /\ last.multi = NilFn /\ last.err = "")
    /\ Called =>
          \A k \in DOMAIN Log :
              IsCall(k) =>
                  /\ Log[k].fn \in SingleFns \cup MultiFns
                  /\ Log[k].fn \in SingleFns => FnIn(m.SingleUnmarshalers, Log[k].ctx.typ)
                  /\ Log[k].fn \in MultiFns => FnIn(m.MultiUnmarshalers, Log[k].ctx.typ)

\* A name registered with nil as single and with a function as multi
\* unmarshaler was resolved.
C29_Witness ==
    /\ ResolvedName
    /\ NilIn(m.SingleUnmarshalers, last.name)
    /\ FnIn(m.MultiUnmarshalers, last.name)

\* The converse, a name registered only with nil in both maps, and a field
\* decoded by the multi unmarshaler of a type whose single unmarshaler is nil.
C29_NilMulti ==
    /\ ResolvedName
    /\ NilIn(m.MultiUnmarshalers, last.name)
    /\ FnIn(m.SingleUnmarshalers, last.name)
C29_OnlyNil ==
    /\ ResolvedName
    /\ NilIn(m.SingleUnmarshalers, last.name)
    /\ NilIn(m.MultiUnmarshalers, last.name)
C29_Decoded ==
    /\ Called
    /\ \E k \in DOMAIN Log :
          /\ IsCall(k)
          /\ Log[k].fn \in MultiFns
          /\ NilIn(m.SingleUnmarshalers, Log[k].ctx.typ)
====
